---- MODULE Spec2Model ----
(***************************************************************************)
(* Model of the rescue-api credential issuance engine                      *)
(* (services/credentials.go, services/service.go), its event store         *)
(* (database/database.go: one sqlite connection), the two address          *)
(* registries (models/node.go) and their refresher tasks (tasks/).         *)
(*                                                                         *)
(* Time is counted in seconds (time.Time.Unix()).  A request worker is one *)
(* HTTP handler goroutine running Service.CreateCredentialWithRetry.       *)
(***************************************************************************)
EXTENDS Integers, Naturals, Sequences, FiniteSets, TLC

----------------------------------------------------------------------------
(* Bounds of the model *)

\* number of concurrent request handlers
NumWorkers == 2
\* number of addresses that sign requests
NumAddrs == 2
\* number of storage faults (busy / locked / I/O error) injected into one request
MaxFaults == 1
\* requests are accepted while the event store holds fewer rows than this
MaxEvents == 4
\* reading of the clock when the service starts (a 10-digit unix time)
StartTime == 1700000000
\* hours of service over which the freshness of the registries is followed
MaxHours == 2

Workers == 1..NumWorkers
Addrs == 1..NumAddrs
\* the signer "recovered" from a malformed or invalid signature
NoAddr == 0

----------------------------------------------------------------------------
(* Program constants *)

OT_ROCKETPOOL == 0
OT_SOLO == 1
OperatorTypes == {OT_ROCKETPOOL, OT_SOLO}

CredentialIssued == 0
CredentialRevoked == 1

\* authorization.Action, authorization.Resource
Allow == 0
Deny == 1
CredentialService == 0
Rule(node, resource, action) == [node_id |-> node, resource |-> resource, action |-> action]

Hour == 3600
credsMinValidityWindow == 48 * Hour
credsRequestMaxAge == 15 * 60
nodeRegistryMaxAge == 1 * Hour

\* dbTryDelayMs with one more delay
dbTryDelayMs_13 == <<1, 2, 5, 10, 15, 20, 25, 25, 25, 50, 50, 100, 100>>

dbTryDelayMs == <<1, 2, 5, 10, 15, 20, 25, 25, 25, 50, 50, 100>>

credsQuotaWindow(ot) == 365 * 24 * Hour

credsQuota(ot) ==
  IF ot = OT_ROCKETPOOL THEN 4
  ELSE IF ot = OT_SOLO THEN 3
  ELSE 1

AuthValidityWindow(ot) ==
  IF ot = OT_ROCKETPOOL THEN 15 * 24 * Hour
  ELSE 10 * 24 * Hour

\* the retry test without sqlite3.ErrBusy
Recoverable_noBusy == {"locked", "constraint"}
\* sqlite3 error codes CreateCredentialWithRetry retries on
Recoverable == {"locked", "busy", "constraint"}
\* a storage error that is not retried (any other sqlite3 code)
StorageErrors == {"locked", "busy", "ioerr"}

\* getTimestampFromRequest returns -1 with a ValidationError
BadFormat == -1

\* the number of characters of strconv / fmt "%d" of a natural number
RECURSIVE Digits(_)
Digits(n) == IF n < 10 THEN 1 ELSE 1 + Digits(n \div 10)

\* A request message is the text "Rescue Node " followed by a group of
\* decimal digits: digits is the length of the group (0: no such group, the
\* message has another shape), value the number the group reads as.
\* fmt.Sprintf("Rescue Node %d", t)
Msg(t) == [digits |-> Digits(t), value |-> t]
\* "Rescue Node [TIME]", the empty message
Malformed == [digits |-> 0, value |-> 0]
\* "Rescue Node 0000000000"
ZeroPadded == [digits |-> 10, value |-> 0]

\* getTimestampFromRequest without the length of the digit group
getTimestampFromRequest_anyLength(msg) ==
  IF msg.digits = 0 THEN BadFormat ELSE msg.value

\* credentialRequestPattern `(?i)^Rescue Node ([0-9]{10})$`, then ParseInt
getTimestampFromRequest(msg) ==
  IF msg.digits # 10 THEN BadFormat ELSE msg.value

\* A signature is its length in bytes, its last byte v and the pair (r, s):
\* the pair is what the key of address key yields over message msg, with
\* recovery id recid; key NoAddr stands for a pair that is no curve point.
\* an address whose key nobody holds: what recovery yields from a pair with
\* the other recovery id or over another message
Stranger == NumAddrs + 1

\* crypto.SignatureLength
SignatureLength == 65

\* the recovery id of the signature of a key over a message
RecId(a, msg) == (a + msg.value) % 2

\* Wallet.Sign: crypto.Sign, then V from 0/1 to 27/28
Sign(a, msg) ==
  [len |-> SignatureLength, v |-> RecId(a, msg) + 27,
   rs |-> [key |-> a, recid |-> RecId(a, msg), msg |-> msg]]

\* []byte("invalid"), the malformed signature of the tests
NoSig == [len |-> 7, v |-> 0, rs |-> [key |-> NoAddr, recid |-> 0, msg |-> Malformed]]

\* crypto.SigToPub and crypto.PubkeyToAddress; NoAddr stands for (nil, err)
SigToAddress(msg, rs, recid) ==
  IF rs.key = NoAddr \/ recid \notin {0, 1} THEN NoAddr
  ELSE IF recid = rs.recid /\ msg = rs.msg THEN rs.key
  ELSE Stranger

\* RecoverAddressFromSignature without the case 27, 28
RecoverAddressFromSignature_lowVOnly(msg, sig) ==
  IF sig.len # SignatureLength THEN NoAddr
  ELSE IF sig.v \in {0, 1} THEN SigToAddress(msg, sig.rs, sig.v)
  ELSE NoAddr

\* util.RecoverAddressFromSignature; NoAddr stands for (nil, err)
RecoverAddressFromSignature(msg, sig) ==
  IF sig.len # SignatureLength THEN NoAddr
  ELSE IF sig.v \in {27, 28} THEN SigToAddress(msg, sig.rs, sig.v - 27)
  ELSE IF sig.v \in {0, 1} THEN SigToAddress(msg, sig.rs, sig.v)
  ELSE NoAddr

\* the secret of the credential manager of the service, and another one
CredentialSecret == 1
OtherSecret == 2

\* the MAC of the credential manager: a keyed function of the payload, taken
\* as collision-free
HMAC(key, payload) == [key |-> key, payload |-> payload]
NoMac == [key |-> 0, payload |-> <<>>]

NoCred == [nodeId |-> NoAddr, timestamp |-> 0, operatorType |-> 0, mac |-> NoMac]
NoResult == [err |-> "pending", cred |-> NoCred]
NoRequest ==
  [signer |-> NoAddr, ot |-> OT_ROCKETPOOL, msg |-> Malformed, ts |-> BadFormat,
   sig |-> NoSig]
NoInfo == [req |-> [signer |-> NoAddr, expected |-> NoAddr, ot |-> OT_ROCKETPOOL,
                  msg |-> Malformed, ts |-> BadFormat],
           err |-> "pending", events |-> <<>>, status |-> 0]
NoFault == [at |-> "none", err |-> "none"]
\* the storage faults that can hit a step: none, or an error at one of its statements
FaultsAt(places) == {NoFault} \cup [at : places, err : StorageErrors]
\* the same, with the errors of contention only
TransientAt(places) == {NoFault} \cup [at : places, err : {"busy", "locked"}]

----------------------------------------------------------------------------
VARIABLES
  clock,                \* s.clock.Now().Unix(): the clock the service was given
  wall,                 \* time.Now().Unix(): the clock of the process
  events,               \* table credential_events
  rules,                \* table authorization_rules
  schema,               \* columns and primary key of table credential_events
  conn,                 \* holder of the single pooled connection (0 = idle)
  nodes,                \* s.nodes.registry
  nodesLastUpdated,     \* s.nodes.LastUpdated
  withdrawalAddresses,  \* s.withdrawalAddresses.registry
  wdLastUpdated,        \* s.withdrawalAddresses.LastUpdated
  enableSoloValidators, \* s.enableSoloValidators
  pc,                   \* position of each request handler
  req,                  \* (msg, sig, ot) of the request being handled, and the tsSecs parsed from msg
  try,                  \* loop index of CreateCredentialWithRetry
  result,               \* (cred, err) of the last attempt
  info,                 \* (info, err) returned by the last GetOperatorInfo of each handler
  nodesTask,            \* UpdateNodesTask: ticker interval, sources consulted in the last cycle
  wdTask                \* UpdateWithdrawalAddressesTask: position, ticker interval, fetched list

vars == <<clock, wall, events, rules, schema, conn, nodes, nodesLastUpdated, withdrawalAddresses,
          wdLastUpdated, enableSoloValidators, pc, req, try, result, info, nodesTask, wdTask>>

\* what neither a request handler, a refresher task nor the clock writes
adminVars == <<rules, schema>>

regVars == <<nodes, nodesLastUpdated, withdrawalAddresses, wdLastUpdated, enableSoloValidators,
             nodesTask, wdTask>>

Max(S) == CHOOSE x \in S : \A y \in S : y <= x

\* a request is hit by storage faults in its first MaxFaults attempts only
FaultAllowed(w, f) == f.at # "none" => try[w] < MaxFaults

----------------------------------------------------------------------------
(* Event store *)

\* no table credential_events
Absent == [cols |-> {}, pk |-> <<>>]
\* the table of createTables
Legacy == [cols |-> {"node_id", "timestamp", "type"}, pk |-> <<"node_id", "timestamp">>]
\* the table of migrateTables
Migrated == [cols |-> {"node_id", "timestamp", "type", "operator_type"},
             pk |-> <<"node_id", "operator_type", "timestamp">>]

\* a row of the legacy table
LegacyEvent(node, ts, type) == [node_id |-> node, timestamp |-> ts, type |-> type]

\* no two rows of the table agree on its primary key
pkUnique(db) ==
  \A r1, r2 \in db.rows :
    (\A i \in 1..Len(db.schema.pk) : r1[db.schema.pk[i]] = r2[db.schema.pk[i]]) => r1 = r2

\* CREATE TABLE IF NOT EXISTS credential_events (... PRIMARY KEY (node_id, timestamp))
createTable(db) ==
  IF db.schema.cols = {} THEN [schema |-> Legacy, rows |-> {}] ELSE db

\* migrateTables without INSERT INTO _credential_events_copy ... SELECT
migrateTables_noCopy(db) ==
  IF "operator_type" \notin db.schema.cols
  THEN [schema |-> Migrated, rows |-> {}]
  ELSE db

\* migrateTables: if the column operator_type is missing, the rows are copied
\* with operator_type 0 into a table with the new primary key, which takes
\* the place of the old one
migrateTables(db) ==
  IF "operator_type" \notin db.schema.cols
  THEN [schema |-> Migrated,
        rows |-> {[node_id |-> r.node_id, timestamp |-> r.timestamp, type |-> r.type,
                   operator_type |-> 0] : r \in db.rows}]
  ELSE db

\* Service.createTables
createTables(db) == migrateTables(createTable(db))

\* Service.Init, before the router and the tasks are started
ServiceInit ==
  /\ \A w \in Workers : pc[w] = "idle"
  /\ LET db == createTables([schema |-> schema, rows |-> events]) IN
       /\ schema' = db.schema
       /\ events' = db.rows
  /\ UNCHANGED <<clock, wall, rules, conn, regVars, pc, req, try, result, info>>

\* getCredEvents with "timestamp >= ?" in place of "timestamp > ?"
getCredEvents_geq(db, node, since, type, ot) ==
  LET S == {e \in db : e.node_id = node /\ e.timestamp >= since
                        /\ e.type = type /\ e.operator_type = ot}
  IN [last |-> IF S = {} THEN 0 ELSE Max({e.timestamp : e \in S}),
      count |-> Cardinality(S)]

\* getCredEvents without "AND operator_type = ?"
getCredEvents_anyType(db, node, since, type, ot) ==
  LET S == {e \in db : e.node_id = node /\ e.timestamp > since /\ e.type = type}
  IN [last |-> IF S = {} THEN 0 ELSE Max({e.timestamp : e \in S}),
      count |-> Cardinality(S)]

\* getCredEventsStmt: SELECT COALESCE(MAX(timestamp), 0), COUNT(*) ...
getCredEvents(db, node, since, type, ot) ==
  LET S == {e \in db : e.node_id = node /\ e.timestamp > since
                        /\ e.type = type /\ e.operator_type = ot}
  IN [last |-> IF S = {} THEN 0 ELSE Max({e.timestamp : e \in S}),
      count |-> Cardinality(S)]

\* pkConflict with the type of the event taken into the key
pkConflict_typeInKey(db, node, ts, ot) ==
  \E e \in db : /\ e.node_id = node /\ e.operator_type = ot /\ e.timestamp = ts
                 /\ e.type = CredentialIssued

\* PRIMARY KEY (node_id, operator_type, timestamp)
pkConflict(db, node, ts, ot) ==
  \E e \in db : e.node_id = node /\ e.operator_type = ot /\ e.timestamp = ts

Event(node, ts, type, ot) ==
  [node_id |-> node, timestamp |-> ts, type |-> type, operator_type |-> ot]

\* the fields of a credential the MAC is computed over
Payload(cred) == <<cred.nodeId, cred.timestamp, cred.operatorType>>

\* cm.Create that leaves the operator type of the credential at its zero value
Create_noOperatorType(t, node, ot) ==
  LET c == [nodeId |-> node, timestamp |-> t, operatorType |-> 0]
  IN [nodeId |-> c.nodeId, timestamp |-> c.timestamp, operatorType |-> c.operatorType,
      mac |-> HMAC(CredentialSecret, Payload(c))]

\* cm.Create(t, nodeID, ot): the credential and its MAC under the secret of the service
Create(t, node, ot) ==
  LET c == [nodeId |-> node, timestamp |-> t, operatorType |-> ot]
  IN [nodeId |-> c.nodeId, timestamp |-> c.timestamp, operatorType |-> c.operatorType,
      mac |-> HMAC(CredentialSecret, Payload(c))]

\* cm.Verify: the MAC is recomputed over the fields of the credential
Verify(key, cred) == cred.mac = HMAC(key, Payload(cred))

----------------------------------------------------------------------------
(* Registries *)

\* isNodeRegistered with a registry exactly one hour old taken for stale
isNodeRegistered_staleAtMaxAge(a) ==
  IF clock >= nodesLastUpdated + nodeRegistryMaxAge THEN FALSE
  ELSE a \in nodes

\* Service.isNodeRegistered: s.clock.Now().After(LastUpdated.Add(nodeRegistryMaxAge))
isNodeRegistered(a) ==
  IF clock > nodesLastUpdated + nodeRegistryMaxAge THEN FALSE
  ELSE a \in nodes

\* Service.isWithdrawalAddress
isWithdrawalAddress(a) ==
  IF clock > wdLastUpdated + nodeRegistryMaxAge THEN FALSE
  ELSE a \in withdrawalAddresses

----------------------------------------------------------------------------
(* Request handlers *)

\* An attempt ends with (cred, err); the loop of CreateCredentialWithRetry
\* breaks on success and on unrecoverable errors, otherwise it sleeps.
Finish_retryAnyError(w, err, cred) ==
  /\ result' = [result EXCEPT ![w] = [err |-> err, cred |-> cred]]
  /\ pc' = [pc EXCEPT ![w] = IF err # "none" THEN "sleep" ELSE "done"]

Finish(w, err, cred) ==
  /\ result' = [result EXCEPT ![w] = [err |-> err, cred |-> cred]]
  /\ pc' = [pc EXCEPT ![w] = IF err \in Recoverable THEN "sleep" ELSE "done"]

\* the registry part of checkNodeAuthorization looking a solo operator up in
\* the node registry as well
checkRequest_anyRegistry(r) ==
  IF r.ts = BadFormat THEN "validation"
  ELSE IF wall - r.ts > credsRequestMaxAge THEN "authentication"
  ELSE IF r.signer = NoAddr THEN "authentication"
  ELSE IF r.ot = OT_ROCKETPOOL /\ ~isNodeRegistered(r.signer) THEN "authorization"
  ELSE IF r.ot = OT_SOLO /\ ~enableSoloValidators THEN "authorization"
  ELSE IF r.ot = OT_SOLO /\ ~isWithdrawalAddress(r.signer)
                         /\ ~isNodeRegistered(r.signer) THEN "authorization"
  ELSE "none"

\* CreateCredential recovering the signer ahead of checkRequestAge
checkRequest_signerFirst(r) ==
  IF r.signer = NoAddr THEN "authentication"
  ELSE IF r.ts = BadFormat THEN "validation"
  ELSE IF wall - r.ts > credsRequestMaxAge THEN "authentication"
  ELSE IF r.ot = OT_ROCKETPOOL /\ ~isNodeRegistered(r.signer) THEN "authorization"
  ELSE IF r.ot = OT_SOLO /\ ~enableSoloValidators THEN "authorization"
  ELSE IF r.ot = OT_SOLO /\ ~isWithdrawalAddress(r.signer) THEN "authorization"
  ELSE "none"

\* checkRequestAge refusing a timestamp that lies ahead of the clock as well
checkRequest_noFuture(r) ==
  IF r.ts = BadFormat THEN "validation"
  ELSE IF wall - r.ts > credsRequestMaxAge \/ r.ts > wall THEN "authentication"
  ELSE IF r.signer = NoAddr THEN "authentication"
  ELSE IF r.ot = OT_ROCKETPOOL /\ ~isNodeRegistered(r.signer) THEN "authorization"
  ELSE IF r.ot = OT_SOLO /\ ~enableSoloValidators THEN "authorization"
  ELSE IF r.ot = OT_SOLO /\ ~isWithdrawalAddress(r.signer) THEN "authorization"
  ELSE "none"

\* checkNodeAuthorization with a default case that refuses other operator types
checkRequest_knownTypesOnly(r) ==
  IF r.ts = BadFormat THEN "validation"
  ELSE IF wall - r.ts > credsRequestMaxAge THEN "authentication"
  ELSE IF r.signer = NoAddr THEN "authentication"
  ELSE IF r.ot = OT_ROCKETPOOL /\ ~isNodeRegistered(r.signer) THEN "authorization"
  ELSE IF r.ot = OT_SOLO /\ ~enableSoloValidators THEN "authorization"
  ELSE IF r.ot = OT_SOLO /\ ~isWithdrawalAddress(r.signer) THEN "authorization"
  ELSE IF r.ot \notin OperatorTypes THEN "authorization"
  ELSE "none"

\* checkRequestAge, getNodeID and the registry part of checkNodeAuthorization
checkRequest(r) ==
  IF r.ts = BadFormat THEN "validation"
  ELSE IF wall - r.ts > credsRequestMaxAge THEN "authentication"
  ELSE IF r.signer = NoAddr THEN "authentication"
  ELSE IF r.ot = OT_ROCKETPOOL /\ ~isNodeRegistered(r.signer) THEN "authorization"
  ELSE IF r.ot = OT_SOLO /\ ~enableSoloValidators THEN "authorization"
  ELSE IF r.ot = OT_SOLO /\ ~isWithdrawalAddress(r.signer) THEN "authorization"
  ELSE "none"

\* CreateCredential is entered: the checks that precede the deny-rule lookup
Attempt(w, r) ==
  LET err == checkRequest(r) IN
    IF err = "none"
    THEN /\ pc' = [pc EXCEPT ![w] = "deny"]
         /\ result' = [result EXCEPT ![w] = NoResult]
    ELSE Finish(w, err, NoCred)

\* A handler receives (msg, sig, ot) and enters CreateCredentialWithRetry;
\* signer is what getNodeID recovers, ts what checkRequestAge parses.
ReceiveUpTo(cap, w, sig, ot, msg) ==
  /\ pc[w] = "idle"
  /\ Cardinality(events) < cap
  /\ req' = [req EXCEPT ![w] = [signer |-> RecoverAddressFromSignature(msg, sig),
                                ot |-> ot, msg |-> msg,
                                ts |-> getTimestampFromRequest(msg), sig |-> sig]]
  /\ try' = [try EXCEPT ![w] = 0]
  /\ Attempt(w, req'[w])
  /\ UNCHANGED <<clock, wall, info, events, adminVars, conn, regVars>>

\* requests are served while the store holds fewer than MaxEvents rows
Receive(w, sig, ot, msg) == ReceiveUpTo(MaxEvents, w, sig, ot, msg)

\* The request of an operator who signs msg with the key of signer, as the
\* smartnode does; signer NoAddr: the signature is malformed.
Submit(w, signer, ot, msg) ==
  Receive(w, IF signer = NoAddr THEN NoSig ELSE Sign(signer, msg), ot, msg)

\* isNodeAuthorized: a read-only transaction on the pooled connection
\* isNodeAuthorized with any rule of the node taken for a denial
isNodeAuthorized_anyAction(a, f) ==
  IF f.at = "deny" THEN FALSE
  ELSE ~\E r \in rules : r.node_id = a /\ r.resource = CredentialService

isNodeAuthorized(a, f) ==
  IF f.at = "deny" THEN FALSE
  ELSE ~\E r \in rules : r.node_id = a /\ r.resource = CredentialService /\ r.action = Deny

\* checkNodeAuthorization handing the storage error of the lookup to the caller
DenyCheck_propagate(w, f) ==
  /\ pc[w] = "deny"
  /\ conn = 0
  /\ f.at \in {"none", "deny"}
  /\ IF f.at = "deny" THEN Finish(w, f.err, NoCred)
     ELSE IF isNodeAuthorized(req[w].signer, f)
     THEN /\ pc' = [pc EXCEPT ![w] = "begin"]
          /\ result' = result
     ELSE Finish(w, "authorization", NoCred)
  /\ UNCHANGED <<clock, wall, info, events, adminVars, conn, regVars, req, try>>

DenyCheck(w, f) ==
  /\ pc[w] = "deny"
  /\ conn = 0
  /\ f.at \in {"none", "deny"}
  /\ IF isNodeAuthorized(req[w].signer, f)
     THEN /\ pc' = [pc EXCEPT ![w] = "begin"]
          /\ result' = result
     ELSE Finish(w, "authorization", NoCred)
  /\ UNCHANGED <<clock, wall, info, events, adminVars, conn, regVars, req, try>>

\* s.db.Begin() called ahead of the deny-rule lookup
Begin_beforeDenyCheck(w, f) ==
  /\ pc[w] \in {"deny", "begin"}
  /\ conn = 0
  /\ f.at \in {"none", "begin"}
  /\ IF f.at = "none"
     THEN /\ conn' = w
          /\ pc' = [pc EXCEPT ![w] = "tx"]
          /\ result' = result
     ELSE /\ conn' = conn
          /\ Finish(w, f.err, NoCred)
  /\ UNCHANGED <<clock, wall, info, events, adminVars, regVars, req, try>>

\* s.db.Begin(): waits for the pooled connection
Begin(w, f) ==
  /\ pc[w] = "begin"
  /\ conn = 0
  /\ f.at \in {"none", "begin"}
  /\ IF f.at = "none"
     THEN /\ conn' = w
          /\ pc' = [pc EXCEPT ![w] = "tx"]
          /\ result' = result
     ELSE /\ conn' = conn
          /\ Finish(w, f.err, NoCred)
  /\ UNCHANGED <<clock, wall, info, events, adminVars, regVars, req, try>>

\* currentWindowStart computed from the validity window instead of the quota window
currentWindowStart_validity(nowT, ot) == nowT - AuthValidityWindow(ot)

\* currentWindowStart := now.Add(-credsQuotaWindow(ot)).Unix()
currentWindowStart(nowT, ot) == nowT - credsQuotaWindow(ot)

\* reissuable with "&&" in place of "||"
reissuable_and(lastCredTimestamp, credsCount, nowT, ot) ==
  LET expires == lastCredTimestamp + AuthValidityWindow(ot)
  IN expires > nowT /\ (expires - nowT > credsMinValidityWindow
                         /\ credsCount = credsQuota(ot))

\* reissuable with ">=" in place of ">" in the comparison of the remaining validity
reissuable_geq(lastCredTimestamp, credsCount, nowT, ot) ==
  LET expires == lastCredTimestamp + AuthValidityWindow(ot)
  IN expires > nowT /\ (expires - nowT >= credsMinValidityWindow
                         \/ credsCount = credsQuota(ot))

\* reissuable without the clause on the exhausted quota
reissuable_noQuotaClause(lastCredTimestamp, credsCount, nowT, ot) ==
  LET expires == lastCredTimestamp + AuthValidityWindow(ot)
  IN expires > nowT /\ expires - nowT > credsMinValidityWindow

\* reissuable without the test that the last credential is still valid
reissuable_expired(lastCredTimestamp, credsCount, nowT, ot) ==
  LET expires == lastCredTimestamp + AuthValidityWindow(ot)
  IN expires - nowT > credsMinValidityWindow \/ credsCount = credsQuota(ot)

\* "Reissue the last credential if it's still valid, and it expires in more
\* than credsMinValidityWindow, or no more credentials can be issued"
reissuable(lastCredTimestamp, credsCount, nowT, ot) ==
  LET created == lastCredTimestamp
      expires == created + AuthValidityWindow(ot)
  IN expires > nowT /\ (expires - nowT > credsMinValidityWindow
                         \/ credsCount = credsQuota(ot))

\* quotaReached with ">" in place of ">="
quotaReached_gt(credsCount, ot) == credsCount > credsQuota(ot)

\* "Has the node reached its quota for the current window?"
quotaReached(credsCount, ot) == credsCount >= credsQuota(ot)

\* txOutcome with the reissued credential built from now instead of created
txOutcome_reissueNow(db, r, nowT, f) ==
  LET row == getCredEvents(db, r.signer, currentWindowStart(nowT, r.ot),
                           CredentialIssued, r.ot)
      new == Event(r.signer, nowT, CredentialIssued, r.ot)
  IN IF f.at = "query" THEN <<db, f.err, NoCred, TRUE>>
     ELSE IF reissuable(row.last, row.count, nowT, r.ot)
       THEN <<db, "none", Create(nowT, r.signer, r.ot), FALSE>>
     ELSE IF quotaReached(row.count, r.ot)
       THEN <<db, "authorization", NoCred, FALSE>>
     ELSE IF f.at = "insert" THEN <<db, f.err, NoCred, TRUE>>
     ELSE IF pkConflict(db, r.signer, nowT, r.ot)
       THEN <<db, "constraint", NoCred, FALSE>>
     ELSE IF f.at = "commit" THEN <<db, f.err, NoCred, TRUE>>
     ELSE <<db \cup {new}, "none", Create(nowT, r.signer, r.ot), FALSE>>

\* txOutcome without the rollback of a transaction whose commit failed
txOutcome_noRollback(db, r, nowT, f) ==
  LET row == getCredEvents(db, r.signer, currentWindowStart(nowT, r.ot),
                           CredentialIssued, r.ot)
      new == Event(r.signer, nowT, CredentialIssued, r.ot)
  IN IF f.at = "query" THEN <<db, f.err, NoCred, TRUE>>
     ELSE IF reissuable(row.last, row.count, nowT, r.ot)
       THEN <<db, "none", Create(row.last, r.signer, r.ot), FALSE>>
     ELSE IF quotaReached(row.count, r.ot)
       THEN <<db, "authorization", NoCred, FALSE>>
     ELSE IF f.at = "insert" THEN <<db, f.err, NoCred, TRUE>>
     ELSE IF pkConflict(db, r.signer, nowT, r.ot)
       THEN <<db, "constraint", NoCred, FALSE>>
     ELSE IF f.at = "commit" THEN <<db \cup {new}, f.err, NoCred, TRUE>>
     ELSE <<db \cup {new}, "none", Create(nowT, r.signer, r.ot), FALSE>>

\* the outcome of the transactional block of CreateCredential:
\* <<events after, err, cred, whether the fault f was hit>>
\* txOutcome recording every reissue as an event of its own
txOutcome_recordReissue(db, r, nowT, f) ==
  LET row == getCredEvents(db, r.signer, currentWindowStart(nowT, r.ot),
                           CredentialIssued, r.ot)
  IN IF f.at = "query" THEN <<db, f.err, NoCred, TRUE>>
     ELSE IF reissuable(row.last, row.count, nowT, r.ot)
       THEN <<db \cup {Event(r.signer, nowT, CredentialRevoked, r.ot)},
              "none", Create(row.last, r.signer, r.ot), FALSE>>
     ELSE IF quotaReached(row.count, r.ot)
       THEN <<db, "authorization", NoCred, FALSE>>
     ELSE IF f.at = "insert" THEN <<db, f.err, NoCred, TRUE>>
     ELSE IF pkConflict(db, r.signer, nowT, r.ot)
       THEN <<db, "constraint", NoCred, FALSE>>
     ELSE IF f.at = "commit" THEN <<db, f.err, NoCred, TRUE>>
     ELSE <<db \cup {Event(r.signer, nowT, CredentialIssued, r.ot)},
            "none", Create(nowT, r.signer, r.ot), FALSE>>

\* txOutcome with INSERT OR REPLACE: the new row takes the place of the row
\* that holds its key
txOutcome_insertOrReplace(db, r, nowT, f) ==
  LET row == getCredEvents(db, r.signer, currentWindowStart(nowT, r.ot),
                           CredentialIssued, r.ot)
      held == {e \in db : /\ e.node_id = r.signer /\ e.operator_type = r.ot
                          /\ e.timestamp = nowT}
  IN IF f.at = "query" THEN <<db, f.err, NoCred, TRUE>>
     ELSE IF reissuable(row.last, row.count, nowT, r.ot)
       THEN <<db, "none", Create(row.last, r.signer, r.ot), FALSE>>
     ELSE IF quotaReached(row.count, r.ot)
       THEN <<db, "authorization", NoCred, FALSE>>
     ELSE IF f.at = "insert" THEN <<db, f.err, NoCred, TRUE>>
     ELSE IF f.at = "commit" THEN <<db, f.err, NoCred, TRUE>>
     ELSE <<(db \ held) \cup {Event(r.signer, nowT, CredentialIssued, r.ot)},
            "none", Create(nowT, r.signer, r.ot), FALSE>>

txOutcome(db, r, nowT, f) ==
  LET row == getCredEvents(db, r.signer, currentWindowStart(nowT, r.ot),
                           CredentialIssued, r.ot)
  IN IF f.at = "query" THEN <<db, f.err, NoCred, TRUE>>
     ELSE IF reissuable(row.last, row.count, nowT, r.ot)
       THEN <<db, "none", Create(row.last, r.signer, r.ot), FALSE>>
     ELSE IF quotaReached(row.count, r.ot)
       THEN <<db, "authorization", NoCred, FALSE>>
     ELSE IF f.at = "insert" THEN <<db, f.err, NoCred, TRUE>>
     ELSE IF pkConflict(db, r.signer, nowT, r.ot)
       THEN <<db, "constraint", NoCred, FALSE>>
     ELSE IF f.at = "commit" THEN <<db, f.err, NoCred, TRUE>>
     ELSE <<db \cup {Event(r.signer, nowT, CredentialIssued, r.ot)},
            "none", Create(nowT, r.signer, r.ot), FALSE>>

Transact(w, f) ==
  /\ pc[w] = "tx"
  /\ conn = w
  /\ f.at \in {"none", "query", "insert", "commit"}
  /\ LET out == txOutcome(events, req[w], clock, f) IN
       /\ (f.at # "none") => out[4]
       /\ events' = out[1]
       /\ Finish(w, out[2], out[3])
  /\ conn' = 0
  /\ UNCHANGED <<clock, wall, info, adminVars, regVars, req, try>>

\* Wake with the next iteration resuming at the transaction
Wake_resumeAtBegin(w) ==
  /\ pc[w] = "sleep"
  /\ IF try[w] + 1 < Len(dbTryDelayMs)
     THEN /\ try' = [try EXCEPT ![w] = try[w] + 1]
          /\ pc' = [pc EXCEPT ![w] = "begin"]
          /\ result' = [result EXCEPT ![w] = NoResult]
     ELSE /\ try' = try
          /\ pc' = [pc EXCEPT ![w] = "done"]
          /\ result' = result
  /\ UNCHANGED <<clock, wall, info, events, adminVars, conn, regVars, req>>

\* s.clock.Sleep(dbTryDelayMs[try]) returns: next iteration, or end of the loop
Wake(w) ==
  /\ pc[w] = "sleep"
  /\ IF try[w] + 1 < Len(dbTryDelayMs)
     THEN /\ try' = [try EXCEPT ![w] = try[w] + 1]
          /\ Attempt(w, req[w])
     ELSE /\ try' = try
          /\ pc' = [pc EXCEPT ![w] = "done"]
          /\ result' = result
  /\ UNCHANGED <<clock, wall, info, events, adminVars, conn, regVars, req>>

\* CreateCredentialWithRetry has returned (cred, err) to the HTTP handler
Return(w) ==
  /\ pc[w] = "done"
  /\ pc' = [pc EXCEPT ![w] = "idle"]
  /\ result' = [result EXCEPT ![w] = NoResult]
  /\ req' = [req EXCEPT ![w] = NoRequest]
  /\ try' = [try EXCEPT ![w] = 0]
  /\ UNCHANGED <<clock, wall, info, events, adminVars, conn, regVars>>

----------------------------------------------------------------------------
(* Operator info *)

\* ORDER BY timestamp DESC
RECURSIVE SortDesc(_)
SortDesc(S) == IF S = {} THEN <<>> ELSE <<Max(S)>> \o SortDesc(S \ {Max(S)})

\* getCredEventTimestamps with "timestamp >= ?" for the lower bound
getCredEventTimestamps_geq(db, node, since, until, type, ot) ==
  SortDesc({e.timestamp : e \in {x \in db : /\ x.node_id = node
                                            /\ x.timestamp >= since /\ x.timestamp <= until
                                            /\ x.type = type /\ x.operator_type = ot}})

\* getCredEventTimestampsStmt: ... timestamp > ? AND timestamp <= ? ... ORDER BY timestamp DESC
getCredEventTimestamps(db, node, since, until, type, ot) ==
  SortDesc({e.timestamp : e \in {x \in db : /\ x.node_id = node
                                            /\ x.timestamp > since /\ x.timestamp <= until
                                            /\ x.type = type /\ x.operator_type = ot}})

\* the loop over the rows: it breaks when credCount == credsQuota(ot)
parseCredentialEvents(rows, ot) ==
  IF Len(rows) <= credsQuota(ot) THEN rows ELSE SubSeq(rows, 1, credsQuota(ot))

\* validateSignedRequest: request age, signer, expected signer, registries, deny rules
\* validateSignedRequest comparing the addresses after checkNodeAuthorization
validateSignedRequest_matchLast(r, f) ==
  LET err == checkRequest(r) IN
    IF err # "none" THEN err
    ELSE IF ~isNodeAuthorized(r.signer, f) THEN "authorization"
    ELSE IF r.signer # r.expected THEN "authentication"
    ELSE "none"

validateSignedRequest(r, f) ==
  LET err == checkRequest(r) IN
    IF err \in {"validation", "authentication"} THEN err
    ELSE IF r.signer # r.expected THEN "authentication"
    ELSE IF err # "none" THEN err
    ELSE IF ~isNodeAuthorized(r.signer, f) THEN "authorization"
    ELSE "none"

\* api.writeJSONError, and http.StatusOK of a successful response
writeJSONResponseStatus(err) ==
  CASE err = "none" -> 200
    [] err = "validation" -> 400
    [] err = "authentication" -> 401
    [] err = "authorization" -> 403
    [] OTHER -> 500

\* Service.GetOperatorInfo, called by the /info handler; the deny-rule lookup
\* and the query wait for the pooled connection
GetOperatorInfo(w, signer, expected, ot, msg, f) ==
  /\ pc[w] = "idle"
  /\ conn = 0
  /\ f.at \in {"none", "deny", "list"}
  /\ LET r == [signer |-> signer, expected |-> expected, ot |-> ot, msg |-> msg,
               ts |-> getTimestampFromRequest(msg)]
         verr == validateSignedRequest(r, f)
         rows == getCredEventTimestamps(events, signer, currentWindowStart(clock, ot),
                                        clock, CredentialIssued, ot)
         err == IF verr # "none" THEN verr
                ELSE IF f.at = "list" THEN f.err
                ELSE "none"
         list == IF err = "none" THEN parseCredentialEvents(rows, ot) ELSE <<>>
     IN info' = [info EXCEPT ![w] = [req |-> r, err |-> err, events |-> list,
                                     status |-> writeJSONResponseStatus(err)]]
  /\ UNCHANGED <<clock, wall, events, adminVars, conn, regVars, pc, req, try, result>>

\* the /info handler has written its response
ReturnInfo(w) ==
  /\ info[w] # NoInfo
  /\ info' = [info EXCEPT ![w] = NoInfo]
  /\ UNCHANGED <<clock, wall, events, adminVars, conn, regVars, pc, req, try, result>>

----------------------------------------------------------------------------
(* Environment: clock and refresher tasks *)

Min(S) == CHOOSE x \in S : \A y \in S : x <= y

Pairs == {<<e.node_id, e.operator_type>> : e \in events}
issued(a, ot) ==
  {e.timestamp : e \in {x \in events : x.node_id = a /\ x.operator_type = ot
                                        /\ x.type = CredentialIssued}}

\* The moments at which the decision of CreateCredential for a pair changes:
\* the last credential gets within credsMinValidityWindow of its expiry, it
\* expires, the oldest event of the current window leaves the window.
PairTargets(a, ot) ==
  LET V == AuthValidityWindow(ot)
      W == credsQuotaWindow(ot)
      M == credsMinValidityWindow
      all == issued(a, ot)
      inWindow == {t \in all : t > clock - W}
  IN (IF all = {} THEN {}
      ELSE {Max(all) + d : d \in {V - M - 1, V - M, V - 1, V}})
     \cup
     (IF inWindow = {} THEN {}
      ELSE {Min(inWindow) + d : d \in {W - 1, W}})

AdvanceTargets == UNION {PairTargets(p[1], p[2]) : p \in Pairs}

\* time passes while no request is in flight; the service runs on the
\* system clock (clockwork.NewRealClock), so both readings move together
Advance(t) ==
  /\ \A w \in Workers : pc[w] = "idle"
  /\ t > clock
  /\ clock' = t
  /\ wall' = wall + (t - clock)
  /\ UNCHANGED <<events, adminVars, conn, regVars, pc, req, try, result, info>>

\* clock.Advance of the fake clock of the tests, followed by
\* svc.nodes.LastUpdated = svc.clock.Now(); the system clock has not moved
AdvanceRefreshed(t) ==
  /\ \A w \in Workers : pc[w] = "idle"
  /\ t > clock
  /\ clock' = t
  /\ nodesLastUpdated' = t
  /\ wdLastUpdated' = t
  /\ UNCHANGED <<wall, events, adminVars, conn, nodes, withdrawalAddresses, enableSoloValidators,
                 nodesTask, wdTask, pc, req, try, result, info>>

\* the system clock passes while the fake clock of the service stands
SystemTimePasses(t) ==
  /\ \A w \in Workers : pc[w] = "idle"
  /\ t > wall
  /\ wall' = t
  /\ UNCHANGED <<clock, events, adminVars, conn, regVars, pc, req, try, result, info>>

\* the system clock passes to the next second, possibly while requests are in flight
Tick ==
  /\ clock + 1 \in AdvanceTargets
  /\ clock' = clock + 1
  /\ wall' = wall + 1
  /\ UNCHANGED <<events, adminVars, conn, regVars, pc, req, try, result, info>>

\* the tickers of both tasks are created with a period of one second
\* (consulted: the sources asked in the last cycle and whether they answered;
\* fetched: newList; old: the registry as it was when newList arrived;
\* tick: ticker.C, a channel of capacity one, holds a tick; stop: the call of
\* Stop, "sending" while it blocks on the unbuffered channel done; stopAt:
\* where Run was when Stop was called)
NewTask ==
  [pc |-> "wait", interval |-> 1, consulted |-> <<>>, fetched |-> {}, old |-> {},
   err |-> FALSE, tick |-> FALSE, stop |-> "none", stopAt |-> "none"]

\* UpdateNodesTask.Run, one tick: the rescue proxy is asked first, rocketscan
\* only if that failed; the registry is add-only
UpdateNodes_stampAlways(okProxy, okScan, ids) ==
  LET consulted == IF okProxy THEN <<[src |-> "rescue-proxy", ok |-> TRUE]>>
                   ELSE <<[src |-> "rescue-proxy", ok |-> FALSE],
                          [src |-> "rocketscan", ok |-> okScan]>>
      failed == ~okProxy /\ ~okScan
  IN /\ nodes' = IF failed THEN nodes ELSE nodes \cup ids
     /\ nodesLastUpdated' = wall
     /\ nodesTask' = [nodesTask EXCEPT !.interval = IF failed THEN 30 ELSE 300,
                                       !.consulted = consulted,
                                       !.pc = "wait"]
     /\ UNCHANGED <<clock, wall, info, events, adminVars, conn, withdrawalAddresses,
                    wdLastUpdated, enableSoloValidators, wdTask, pc, req, try, result>>

\* UpdateNodes installing the list by replacement, as the withdrawal task does
UpdateNodes_replace(okProxy, okScan, ids) ==
  LET consulted == IF okProxy THEN <<[src |-> "rescue-proxy", ok |-> TRUE]>>
                   ELSE <<[src |-> "rescue-proxy", ok |-> FALSE],
                          [src |-> "rocketscan", ok |-> okScan]>>
      failed == ~okProxy /\ ~okScan
  IN /\ nodes' = IF failed THEN nodes ELSE ids
     /\ nodesLastUpdated' = IF failed THEN nodesLastUpdated ELSE wall
     /\ nodesTask' = [nodesTask EXCEPT !.interval = IF failed THEN 30 ELSE 300,
                                       !.consulted = consulted,
                                       !.pc = "wait"]
     /\ UNCHANGED <<clock, wall, info, events, adminVars, conn, withdrawalAddresses,
                    wdLastUpdated, enableSoloValidators, wdTask, pc, req, try, result>>

UpdateNodes(okProxy, okScan, ids) ==
  LET consulted == IF okProxy THEN <<[src |-> "rescue-proxy", ok |-> TRUE]>>
                   ELSE <<[src |-> "rescue-proxy", ok |-> FALSE],
                          [src |-> "rocketscan", ok |-> okScan]>>
      failed == ~okProxy /\ ~okScan
  IN /\ nodes' = IF failed THEN nodes ELSE nodes \cup ids
     /\ nodesLastUpdated' = IF failed THEN nodesLastUpdated ELSE wall
     /\ nodesTask' = [nodesTask EXCEPT !.interval = IF failed THEN 30 ELSE 300,
                                       !.consulted = consulted,
                                       !.pc = "wait"]
     /\ UNCHANGED <<clock, wall, info, events, adminVars, conn, withdrawalAddresses,
                    wdLastUpdated, enableSoloValidators, wdTask, pc, req, try, result>>

\* grpc.DialContext of the rescue proxy client: context.WithTimeout, seconds
dialTimeout == 1
\* the calls of the rescue proxy client: context.WithTimeout, seconds
callTimeout == 5
\* the longest a cycle of UpdateNodesTask.Run lasts: two dials and a call of
\* the rescue proxy, then the call of rocketscan
CycleMax == 2 * dialTimeout + callTimeout + callTimeout

\* the runtime delivers a tick of the ticker of UpdateNodesTask.Run: it is
\* dropped when ticker.C is full, and during a cycle it comes only when the
\* cycle can outlast the period; ticker.Reset leaves ticker.C as it is
TickerFires ==
  /\ ~nodesTask.tick
  /\ \/ nodesTask.pc = "wait"
     \/ nodesTask.pc = "cycle" /\ nodesTask.interval <= CycleMax
  /\ nodesTask' = [nodesTask EXCEPT !.tick = TRUE]
  /\ UNCHANGED <<clock, wall, info, events, adminVars, conn, nodes, nodesLastUpdated,
                 withdrawalAddresses, wdLastUpdated, enableSoloValidators, wdTask,
                 pc, req, try, result>>

\* UpdateNodesTask.Run, select: case <-ticker.C
RunTick ==
  /\ nodesTask.pc = "wait"
  /\ nodesTask.tick
  /\ nodesTask' = [nodesTask EXCEPT !.pc = "cycle", !.tick = FALSE]
  /\ UNCHANGED <<clock, wall, info, events, adminVars, conn, nodes, nodesLastUpdated,
                 withdrawalAddresses, wdLastUpdated, enableSoloValidators, wdTask,
                 pc, req, try, result>>

\* UpdateNodesTask.Run, select: case <-t.done; the send of Stop completes
\* with this receive, Run returns and the deferred ticker.Stop() runs
RunDone ==
  /\ nodesTask.pc = "wait"
  /\ nodesTask.stop = "sending"
  /\ nodesTask' = [nodesTask EXCEPT !.pc = "stopped", !.stop = "returned"]
  /\ UNCHANGED <<clock, wall, info, events, adminVars, conn, nodes, nodesLastUpdated,
                 withdrawalAddresses, wdLastUpdated, enableSoloValidators, wdTask,
                 pc, req, try, result>>

\* UpdateNodesTask.Stop is called: t.done <- true
Stop ==
  /\ nodesTask.stop = "none"
  /\ nodesTask' = [nodesTask EXCEPT !.stop = "sending", !.stopAt = nodesTask.pc]
  /\ UNCHANGED <<clock, wall, info, events, adminVars, conn, nodes, nodesLastUpdated,
                 withdrawalAddresses, wdLastUpdated, enableSoloValidators, wdTask,
                 pc, req, try, result>>

\* UpdateWithdrawalAddressesTask.updateUsingRescueProxy: GetWithdrawalAddresses
FetchWithdrawalAddresses(ok, ids) ==
  /\ wdTask.pc = "wait"
  /\ wdTask' = IF ok THEN [wdTask EXCEPT !.pc = "reset", !.fetched = ids,
                                         !.old = withdrawalAddresses, !.err = FALSE]
               ELSE [wdTask EXCEPT !.pc = "stamp", !.err = TRUE]
  /\ UNCHANGED <<clock, wall, info, events, adminVars, conn, nodes, nodesLastUpdated,
                 withdrawalAddresses, wdLastUpdated, enableSoloValidators, nodesTask,
                 pc, req, try, result>>

\* Reset leaving the map as it is, so that Add unions into the old set
ResetWithdrawalAddresses_additive ==
  /\ wdTask.pc = "reset"
  /\ withdrawalAddresses' = withdrawalAddresses
  /\ wdTask' = [wdTask EXCEPT !.pc = "add"]
  /\ UNCHANGED <<clock, wall, info, events, adminVars, conn, nodes, nodesLastUpdated,
                 wdLastUpdated, enableSoloValidators, nodesTask, pc, req, try, result>>

\* t.withdrawalAddresses.Reset(): the lock is taken and released
ResetWithdrawalAddresses ==
  /\ wdTask.pc = "reset"
  /\ withdrawalAddresses' = {}
  /\ wdTask' = [wdTask EXCEPT !.pc = "add"]
  /\ UNCHANGED <<clock, wall, info, events, adminVars, conn, nodes, nodesLastUpdated,
                 wdLastUpdated, enableSoloValidators, nodesTask, pc, req, try, result>>

\* t.withdrawalAddresses.Add(newList): the lock is taken again
AddWithdrawalAddresses ==
  /\ wdTask.pc = "add"
  /\ withdrawalAddresses' = withdrawalAddresses \cup wdTask.fetched
  /\ wdTask' = [wdTask EXCEPT !.pc = "stamp", !.fetched = {}, !.old = {}]
  /\ UNCHANGED <<clock, wall, info, events, adminVars, conn, nodes, nodesLastUpdated,
                 wdLastUpdated, enableSoloValidators, nodesTask, pc, req, try, result>>

\* the ticker interval a cycle of the withdrawal task leaves the ticker with:
\* Reset(30s) inside "if err != nil", then Reset(300s) after it
wdNextInterval(err) ==
  LET afterIf == IF err THEN 30 ELSE wdTask.interval
      afterReset == 300
  IN afterReset

\* the value of LastUpdated after a cycle: the assignment follows the if
wdNextLastUpdated(err) == wall

\* UpdateWithdrawalAddressesTask.Run, the statements after updateUsingRescueProxy
StampWithdrawalAddresses ==
  /\ wdTask.pc = "stamp"
  /\ wdLastUpdated' = wdNextLastUpdated(wdTask.err)
  /\ wdTask' = [wdTask EXCEPT !.pc = "wait", !.interval = wdNextInterval(wdTask.err),
                              !.err = FALSE]
  /\ UNCHANGED <<clock, wall, info, events, adminVars, conn, nodes, nodesLastUpdated,
                 withdrawalAddresses, enableSoloValidators, nodesTask, pc, req, try, result>>

\* UpdateWithdrawalAddressesTask.Run, one tick that no request interleaves with
UpdateWithdrawalAddresses(ok, ids) ==
  /\ wdTask.pc = "wait"
  /\ withdrawalAddresses' = IF ok THEN ids ELSE withdrawalAddresses
  /\ wdLastUpdated' = wdNextLastUpdated(~ok)
  /\ wdTask' = [wdTask EXCEPT !.interval = wdNextInterval(~ok)]
  /\ UNCHANGED <<clock, wall, info, events, adminVars, conn, nodes, nodesLastUpdated,
                 enableSoloValidators, nodesTask, pc, req, try, result>>

----------------------------------------------------------------------------
(* Specification Spec: one handler serves the requests of one operator,   *)
(* registered in both registries, one after the other, over the years.    *)

Idle ==
  /\ conn = 0
  /\ pc = [w \in Workers |-> "idle"]
  /\ req = [w \in Workers |-> NoRequest]
  /\ try = [w \in Workers |-> 0]
  /\ result = [w \in Workers |-> NoResult]
  /\ info = [w \in Workers |-> NoInfo]
  /\ nodesTask = NewTask
  /\ wdTask = NewTask

Init ==
  /\ clock = StartTime
  /\ wall = clock
  /\ events = {}
  /\ rules = {}
  /\ schema = Migrated
  /\ nodes = {1}
  /\ nodesLastUpdated = StartTime
  /\ withdrawalAddresses = {1}
  /\ wdLastUpdated = StartTime
  /\ enableSoloValidators = TRUE
  /\ Idle

Next ==
  \/ \E ot \in OperatorTypes : Submit(1, 1, ot, Msg(clock))
  \/ DenyCheck(1, NoFault)
  \/ Begin(1, NoFault)
  \/ Transact(1, NoFault)
  \/ Return(1)
  \/ \E t \in AdvanceTargets : AdvanceRefreshed(t)

Spec == Init /\ [][Next]_vars

----------------------------------------------------------------------------
(* Specification SpecConc: several handlers serve concurrent requests of  *)
(* the same operator, with storage faults and retries.  It starts from a  *)
(* fresh store or from a state of the store that Spec reaches.            *)

Day == 24 * Hour

Histories ==
  { \* a fresh store
    [clock |-> StartTime, events |-> {}],
    \* SOLO: two issuances, the last one within 48h of its expiry
    [clock |-> StartTime + 16 * Day,
     events |-> {Event(1, StartTime + d * Day, CredentialIssued, OT_SOLO) : d \in {0, 8}}],
    \* SOLO: quota exhausted, the oldest issuance about to leave the window
    [clock |-> StartTime + 365 * Day - 1,
     events |-> {Event(1, StartTime + d * Day, CredentialIssued, OT_SOLO) : d \in {0, 8, 16}}] }

InitConc ==
  /\ \E h \in Histories : clock = h.clock /\ events = h.events
  /\ wall = clock
  /\ rules = {}
  /\ schema = Migrated
  /\ nodes = {1}
  /\ nodesLastUpdated = clock
  /\ withdrawalAddresses = {1}
  /\ wdLastUpdated = clock
  /\ enableSoloValidators = TRUE
  /\ Idle

NextConc ==
  \/ \E w \in Workers, ot \in OperatorTypes : Submit(w, 1, ot, Msg(clock))
  \/ \E w \in Workers, f \in FaultsAt({"deny"}) :
       FaultAllowed(w, f) /\ DenyCheck(w, f)
  \/ \E w \in Workers, f \in FaultsAt({"begin"}) :
       FaultAllowed(w, f) /\ Begin(w, f)
  \/ \E w \in Workers, f \in FaultsAt({"query", "insert", "commit"}) :
       FaultAllowed(w, f) /\ Transact(w, f)
  \/ \E w \in Workers : Wake(w)
  \/ \E w \in Workers : Return(w)
  \/ Tick

SpecConc == InitConc /\ [][NextConc]_vars

----------------------------------------------------------------------------
(* Properties of the issuance engine *)

\* the quota of the two operator types, as the specification states it
StatedQuota(ot) == IF ot = OT_ROCKETPOOL THEN 4 ELSE 3

\* handler w leaves the transactional block of CreateCredential in this step
Transacted(w) == pc[w] = "tx" /\ pc'[w] # "tx"

latest(a, ot) == IF issued(a, ot) = {} THEN 0 ELSE Max(issued(a, ot))
remaining(a, ot) == latest(a, ot) + AuthValidityWindow(ot) - clock
inWindow(a, ot) == {t \in issued(a, ot) : t > clock - credsQuotaWindow(ot)}
Issued(w, t) == result'[w] = [err |-> "none", cred |-> Create(t, req[w].signer, req[w].ot)]

\* C3: while the latest credential of a pair has more than 48h of validity
\* left (now - T < authValidityWindow - 48h), a request of the pair gets the
\* credential of timestamp T again and nothing is written.
C3_ReissueWhileFresh ==
  [][\A w \in Workers :
       LET a == req[w].signer
           ot == req[w].ot
       IN (/\ Transacted(w)
           /\ issued(a, ot) # {}
           /\ clock - latest(a, ot) < AuthValidityWindow(ot) - credsMinValidityWindow)
          => (Issued(w, latest(a, ot)) /\ events' = events)]_vars

C3_Witness ==
  \E w \in Workers :
    /\ pc[w] = "done" /\ result[w].err = "none"
    /\ clock - result[w].cred.timestamp
         = AuthValidityWindow(req[w].ot) - credsMinValidityWindow - 1

\* C4: when the latest credential of a pair is expired or has at most 48h
\* left and fewer than quota events lie in the current window, a request
\* commits exactly one new event (address, now, ISSUED, ot) and gets a
\* credential of timestamp now, which differs from the previous one.
C4_NewIssue ==
  [][\A w \in Workers :
       LET a == req[w].signer
           ot == req[w].ot
           new == Event(a, clock, CredentialIssued, ot)
       IN (/\ Transacted(w)
           /\ issued(a, ot) # {}
           /\ remaining(a, ot) <= credsMinValidityWindow
           /\ Cardinality(inWindow(a, ot)) < StatedQuota(ot))
          => (/\ Issued(w, clock)
              /\ new \notin events
              /\ events' = events \cup {new}
              /\ clock # latest(a, ot))]_vars

C4_Witness ==
  \E w \in Workers :
    /\ pc[w] = "done" /\ result[w].err = "none"
    /\ result[w].cred.timestamp = clock
    /\ clock - (AuthValidityWindow(req[w].ot) - credsMinValidityWindow)
         \in issued(req[w].signer, req[w].ot)

\* C5: when the events of the current window number exactly the quota and
\* the latest credential has not expired, a request gets the latest
\* credential again, whatever validity it has left, and nothing is written.
C5_ReissueAtQuota ==
  [][\A w \in Workers :
       LET a == req[w].signer
           ot == req[w].ot
       IN (/\ Transacted(w)
           /\ Cardinality(inWindow(a, ot)) = StatedQuota(ot)
           /\ remaining(a, ot) > 0)
          => (Issued(w, latest(a, ot)) /\ events' = events)]_vars

C5_Witness ==
  \E w \in Workers :
    LET a == req[w].signer
        ot == req[w].ot
    IN /\ pc[w] = "done" /\ result[w].err = "none"
       /\ Cardinality(inWindow(a, ot)) = StatedQuota(ot)
       /\ result[w].cred.timestamp = latest(a, ot)
       /\ remaining(a, ot) > 0
       /\ remaining(a, ot) <= credsMinValidityWindow

\* C6: when the events of the current window number at least the quota and
\* the latest credential has expired, the request fails with AUTHORIZATION,
\* without a retry, without a credential and without writing anything.
C6_QuotaExceeded ==
  [][\A w \in Workers :
       LET a == req[w].signer
           ot == req[w].ot
       IN (/\ Transacted(w)
           /\ Cardinality(inWindow(a, ot)) >= StatedQuota(ot)
           /\ remaining(a, ot) <= 0)
          => (/\ result'[w] = [err |-> "authorization", cred |-> NoCred]
              /\ pc'[w] = "done"
              /\ events' = events)]_vars

C6_Witness ==
  \E w \in Workers :
    LET a == req[w].signer
        ot == req[w].ot
    IN /\ pc[w] = "done" /\ result[w].err = "authorization"
       /\ a \in nodes /\ a \in withdrawalAddresses /\ rules = {}
       /\ Cardinality(inWindow(a, ot)) = StatedQuota(ot)
       /\ remaining(a, ot) <= 0

\* C7: an event of timestamp T counts toward the quota only while
\* T > now - window.  With the quota exhausted and the latest credential
\* expired, a request is refused one second before the oldest event of the
\* window reaches the age of window, and is issued a new credential at the
\* second the oldest event reaches it.
C7_WindowSlides ==
  [][\A w \in Workers :
       LET a == req[w].signer
           ot == req[w].ot
           W == credsQuotaWindow(ot)
           since(t0) == {t \in issued(a, ot) : t >= t0}
       IN /\ (/\ Transacted(w)
               /\ remaining(a, ot) <= 0
               /\ clock - W + 1 \in issued(a, ot)
               /\ Cardinality(since(clock - W + 1)) = StatedQuota(ot))
              => (result'[w].err = "authorization" /\ events' = events)
          /\ (/\ Transacted(w)
               /\ remaining(a, ot) <= 0
               /\ clock - W \in issued(a, ot)
               /\ Cardinality(since(clock - W)) = StatedQuota(ot))
              => (/\ Issued(w, clock)
                  /\ events' = events \cup {Event(a, clock, CredentialIssued, ot)})]_vars

C7_Witness ==
  \E w \in Workers :
    LET a == req[w].signer
        ot == req[w].ot
    IN /\ pc[w] = "done" /\ result[w].err = "none"
       /\ result[w].cred.timestamp = clock
       /\ clock - credsQuotaWindow(ot) \in issued(a, ot)
       /\ Cardinality(inWindow(a, ot)) = StatedQuota(ot)

----------------------------------------------------------------------------
(* Properties of the issuance engine under concurrent requests *)

\* C1: for every address and operator type, the ISSUED events whose
\* timestamps lie in an interval (t, t + window] never number more than the
\* quota (4 for ROCKETPOOL, 3 for SOLO), whatever the interleaving of the
\* requests and of their retries.
C1_QuotaPerWindow ==
  \A a \in Addrs, ot \in OperatorTypes :
    \A t1 \in issued(a, ot) :
      Cardinality({t \in issued(a, ot) : t1 - credsQuotaWindow(ot) < t /\ t <= t1})
        <= StatedQuota(ot)

C1_Witness ==
  \E w1, w2 \in Workers :
    /\ w1 # w2
    /\ pc[w1] = "done" /\ pc[w2] = "done"
    /\ req[w1] = req[w2]
    /\ result[w1].err = "none" /\ result[w2] = result[w1]
    /\ result[w1].cred.timestamp = clock
    /\ Cardinality(inWindow(req[w1].signer, req[w1].ot)) = StatedQuota(req[w1].ot)

\* C2: a credential of timestamp T returned by CreateCredential is backed by
\* a committed ISSUED event (address, operatorType, T): the request has just
\* committed it (T = now) or it existed and T + authValidityWindow > now.  An
\* attempt that fails returns no credential and leaves the store as it was.
C2_BackedByEvent ==
  [][\A w \in Workers :
       LET a == req[w].signer
           ot == req[w].ot
           c == result'[w].cred
           ev == Event(a, c.timestamp, CredentialIssued, ot)
       IN /\ Transacted(w) =>
               IF result'[w].err = "none"
               THEN /\ c.nodeId = a /\ c.operatorType = ot
                    /\ \/ /\ c.timestamp = clock
                          /\ ev \notin events
                          /\ events' = events \cup {ev}
                       \/ /\ ev \in events
                          /\ events' = events
                          /\ c.timestamp + AuthValidityWindow(ot) > clock
               ELSE c = NoCred /\ events' = events
          /\ (pc'[w] = "done" /\ result'[w].err = "none") => ev \in events']_vars

C2_Witness ==
  \E w \in Workers :
    /\ pc[w] = "done" /\ result[w].err = "none"
    /\ try[w] > 0
    /\ result[w].cred.timestamp = clock
    /\ Event(req[w].signer, clock, CredentialIssued, req[w].ot) \in events

----------------------------------------------------------------------------
(* Specification SpecRace: each handler serves one request; the handlers   *)
(* race for credentials of registered addresses that hold no credential    *)
(* worth reissuing; the store answers the statements of the transaction    *)
(* with busy or locked now and then.                                       *)

RaceHistories ==
  { \* a fresh store
    [clock |-> StartTime, events |-> {}],
    \* SOLO: two issuances, the last one expiring at the next second
    [clock |-> StartTime + 18 * Day - 1,
     events |-> {Event(1, StartTime + d * Day, CredentialIssued, OT_SOLO) : d \in {0, 8}}] }

InitRace ==
  /\ \E h \in RaceHistories : clock = h.clock /\ events = h.events
  /\ wall = clock
  /\ rules = {}
  /\ schema = Migrated
  /\ nodes = Addrs
  /\ nodesLastUpdated = clock
  /\ withdrawalAddresses = Addrs
  /\ wdLastUpdated = clock
  /\ enableSoloValidators = TRUE
  /\ Idle

NextRace ==
  \/ \E w \in Workers, a \in Addrs, ot \in OperatorTypes : Submit(w, a, ot, Msg(clock))
  \/ \E w \in Workers : DenyCheck(w, NoFault)
  \/ \E w \in Workers, f \in TransientAt({"begin"}) :
       FaultAllowed(w, f) /\ Begin(w, f)
  \/ \E w \in Workers, f \in TransientAt({"query", "insert", "commit"}) :
       FaultAllowed(w, f) /\ Transact(w, f)
  \/ \E w \in Workers : Wake(w)
  \/ Tick

SpecRace == InitRace /\ [][NextRace]_vars

\* the events of a pair written since second t0
issuedSince(a, ot, t0) == {t \in issued(a, ot) : t >= t0}

\* the handlers that have taken a request of the pair
racers(a, ot) ==
  {w \in Workers : pc[w] # "idle" /\ req[w].signer = a /\ req[w].ot = ot}

\* the second the first request of the pair was taken
raceStart(a, ot) == Min({req[w].ts : w \in racers(a, ot)})

\* C8: two requests of the same address and operator type that are in
\* flight together both succeed, get the same credential, and leave exactly
\* one new ISSUED event, the one their credential is built from.
C8_SamePairRace ==
  \A w1, w2 \in Workers :
    (/\ w1 # w2
     /\ pc[w1] = "done" /\ pc[w2] = "done"
     /\ req[w1].signer = req[w2].signer /\ req[w1].ot = req[w2].ot)
    => LET a == req[w1].signer
           ot == req[w1].ot
       IN /\ result[w1].err = "none" /\ result[w2].err = "none"
          /\ result[w1].cred = result[w2].cred
          /\ issuedSince(a, ot, raceStart(a, ot)) = {result[w1].cred.timestamp}

C8_Witness ==
  \E w1, w2 \in Workers :
    /\ w1 # w2
    /\ pc[w1] = "done" /\ pc[w2] = "done"
    /\ req[w1].signer = req[w2].signer /\ req[w1].ot = req[w2].ot
    /\ try[w2] > 0
    /\ result[w1].err = "none" /\ result[w2] = result[w1]
    /\ result[w1].cred.timestamp < clock
    /\ issuedSince(req[w1].signer, req[w1].ot, req[w1].ts) = {result[w1].cred.timestamp}

\* C9: a request signed by a registered address that no other request in
\* flight is signed by succeeds before the end of its retries whatever the
\* other handlers do, and the store holds exactly one new ISSUED event of
\* its address, that of the credential returned; so when all the requests
\* are signed by pairwise distinct addresses they all succeed with one
\* event per address.
C9_DistinctAddressRace ==
  \A w \in Workers :
    (/\ pc[w] = "done"
     /\ \A w2 \in Workers \ {w} : pc[w2] # "idle" => req[w2].signer # req[w].signer)
    => /\ result[w].err = "none"
       /\ try[w] < Len(dbTryDelayMs) - 1
       /\ result[w].cred.nodeId = req[w].signer
       /\ \A ot \in OperatorTypes :
            issuedSince(req[w].signer, ot, req[w].ts)
              = IF ot = req[w].ot THEN {result[w].cred.timestamp} ELSE {}

C9_Witness ==
  /\ \A w \in Workers : pc[w] = "done" /\ result[w].err = "none"
  /\ \A w1, w2 \in Workers : w1 # w2 => req[w1].signer # req[w2].signer
  /\ \E w \in Workers : try[w] > 0
  /\ \A w \in Workers :
       issuedSince(req[w].signer, req[w].ot, req[w].ts) = {result[w].cred.timestamp}

----------------------------------------------------------------------------
(* Specification SpecAuth: the service starts with empty registries; the   *)
(* refreshers fill them and fail now and then, the registries go stale,    *)
(* and one handler serves requests of registered and unregistered signers  *)
(* until the first credential is issued.                                   *)

\* the service does not run past this second
AuthHorizon == StartTime + MaxHours * (nodeRegistryMaxAge + 1)

\* the seconds at which a registry is as old as it may be, and one later
StaleTargets ==
  {l + d : l \in {nodesLastUpdated, wdLastUpdated},
           d \in {nodeRegistryMaxAge, nodeRegistryMaxAge + 1}}

\* messages a request may carry: timestamped now, as old as allowed, one
\* second older, and a message that does not match credentialRequestPattern
RequestMessages ==
  {Msg(clock), Msg(clock - credsRequestMaxAge), Msg(clock - credsRequestMaxAge - 1),
   Malformed}

InitAuth ==
  /\ clock = StartTime
  /\ wall = clock
  /\ events = {}
  /\ rules = {}
  /\ schema = Migrated
  /\ nodes = {}
  /\ nodesLastUpdated = 0
  /\ withdrawalAddresses = {}
  /\ wdLastUpdated = 0
  /\ enableSoloValidators \in BOOLEAN
  /\ Idle

\* the service is followed until it has issued its first credential
NextAuth ==
  \/ \E a \in Addrs \cup {NoAddr}, ot \in OperatorTypes, msg \in RequestMessages :
       events = {} /\ Submit(1, a, ot, msg)
  \/ DenyCheck(1, NoFault)
  \/ Begin(1, NoFault)
  \/ Transact(1, NoFault)
  \/ Return(1)
  \/ \E t \in StaleTargets : events = {} /\ t <= AuthHorizon /\ Advance(t)
  \/ \E ok \in BOOLEAN, ids \in SUBSET Addrs : events = {} /\ UpdateNodes(ok, ok, ids)
  \/ \E ok \in BOOLEAN, ids \in SUBSET Addrs :
       events = {} /\ UpdateWithdrawalAddresses(ok, ids)

SpecAuth == InitAuth /\ [][NextAuth]_vars

\* C10: a well-formed, fresh, signed request of a Rocket Pool or solo
\* operator goes on to the deny-rule lookup exactly when it is a Rocket Pool
\* request whose signer is in the node registry and that registry was
\* refreshed within the last hour, or a solo request while solo validators
\* are enabled whose signer is in the withdrawal address registry and that
\* registry was refreshed within the last hour; otherwise the request ends
\* with an AUTHORIZATION error.
C10_RegistryAuthorization ==
  [][\A w \in Workers :
       (/\ pc[w] = "idle" /\ pc'[w] # "idle"
        /\ req'[w].ts # BadFormat
        /\ clock - req'[w].ts <= 15 * 60
        /\ req'[w].signer # NoAddr)
       => LET a == req'[w].signer
              ot == req'[w].ot
              authorized ==
                \/ /\ ot = OT_ROCKETPOOL
                   /\ a \in nodes
                   /\ clock - nodesLastUpdated <= 3600
                \/ /\ ot = OT_SOLO
                   /\ enableSoloValidators
                   /\ a \in withdrawalAddresses
                   /\ clock - wdLastUpdated <= 3600
          IN IF authorized
             THEN pc'[w] = "deny" /\ result'[w] = NoResult
             ELSE /\ pc'[w] = "done"
                  /\ result'[w] = [err |-> "authorization", cred |-> NoCred]
    ]_vars

\* a Rocket Pool request is refused because the node registry is one second
\* too old, although its signer is in it and in the fresh withdrawal registry
C10_Witness ==
  /\ pc[1] = "done"
  /\ result[1].err = "authorization"
  /\ req[1].ot = OT_ROCKETPOOL
  /\ req[1].ts = clock
  /\ req[1].signer \in nodes \cap withdrawalAddresses
  /\ \A r \in rules : r.node_id # req[1].signer
  /\ clock = nodesLastUpdated + nodeRegistryMaxAge + 1
  /\ clock <= wdLastUpdated + nodeRegistryMaxAge
  /\ enableSoloValidators

\* C11: at every moment and for every address, isNodeRegistered and
\* isWithdrawalAddress answer false when their registry was stamped more
\* than one hour ago, whatever it contains, and answer whether the address
\* is in the registry otherwise; a registry stamped exactly one hour ago is
\* still fresh.
C11_FreshnessOfRegistries ==
  \A a \in Addrs :
    /\ isNodeRegistered(a)
         = IF clock > nodesLastUpdated + 3600 THEN FALSE ELSE a \in nodes
    /\ isWithdrawalAddress(a)
         = IF clock > wdLastUpdated + 3600 THEN FALSE ELSE a \in withdrawalAddresses

\* a Rocket Pool request has passed the registry check with the node
\* registry exactly one hour old, while the withdrawal registry, which
\* holds the signer too, is one second older than that
C11_Witness ==
  /\ pc[1] = "deny"
  /\ req[1].ot = OT_ROCKETPOOL
  /\ req[1].signer \in nodes \cap withdrawalAddresses
  /\ clock = nodesLastUpdated + 3600
  /\ clock = wdLastUpdated + 3601
  /\ isNodeRegistered(req[1].signer)
  /\ ~isWithdrawalAddress(req[1].signer)

----------------------------------------------------------------------------
(* Specification SpecDeny: the administrator has put rules into the table  *)
(* authorization_rules; one handler serves credential and info requests of *)
(* registered addresses, some of which hold a credential still worth       *)
(* reissuing.                                                              *)

\* resource INTEGER CHECK (resource >= 0 AND resource <= 1)
Resources == {CredentialService, 1}

\* the contents of authorization_rules: PRIMARY KEY (node_id, resource), at most two rows
RuleSets ==
  {R \in SUBSET {Rule(a, rs, ac) : a \in Addrs, rs \in Resources, ac \in {Allow, Deny}} :
     /\ Cardinality(R) <= 2
     /\ \A r1, r2 \in R : (r1.node_id = r2.node_id /\ r1.resource = r2.resource) => r1 = r2}

DenyHistories ==
  { \* a fresh store
    [clock |-> StartTime, events |-> {}],
    \* address 1 got a credential of each type a day ago
    [clock |-> StartTime + Day,
     events |-> {Event(1, StartTime, CredentialIssued, ot) : ot \in OperatorTypes}] }

InitDeny ==
  /\ \E h \in DenyHistories : clock = h.clock /\ events = h.events
  /\ wall = clock
  /\ rules \in RuleSets
  /\ schema = Migrated
  /\ nodes = Addrs
  /\ nodesLastUpdated = clock
  /\ withdrawalAddresses = Addrs
  /\ wdLastUpdated = clock
  /\ enableSoloValidators = TRUE
  /\ Idle

NextDeny ==
  \/ \E a \in Addrs, ot \in OperatorTypes : Submit(1, a, ot, Msg(clock))
  \/ DenyCheck(1, NoFault)
  \/ Begin(1, NoFault)
  \/ Transact(1, NoFault)
  \/ Return(1)
  \/ \E a \in Addrs, ot \in OperatorTypes : GetOperatorInfo(1, a, a, ot, Msg(clock), NoFault)
  \/ ReturnInfo(1)

SpecDeny == InitDeny /\ [][NextDeny]_vars

\* a DENY rule for (a, CREDENTIAL_SERVICE) is in the table
Denied(a) == \E r \in rules : r.node_id = a /\ r.resource = 0 /\ r.action = 1

\* C12: while a DENY rule for (address, CREDENTIAL_SERVICE) exists, a
\* credential request signed by that address ends at the deny-rule lookup
\* with AUTHORIZATION and no credential, also when it would otherwise have
\* reissued a valid credential, an info request signed by it ends with
\* AUTHORIZATION and no list, and neither writes an event; a request of an
\* address without such a rule passes the lookup whatever ALLOW rules, rules
\* for other resources and rules for other addresses the table holds.
C12_DenyRuleForbids ==
  [][\A w \in Workers :
       /\ (pc[w] = "deny" /\ pc'[w] # "deny")
            => IF Denied(req[w].signer)
               THEN /\ pc'[w] = "done"
                    /\ result'[w] = [err |-> "authorization", cred |-> NoCred]
                    /\ events' = events
               ELSE pc'[w] = "begin"
       /\ (pc'[w] = "done" /\ Denied(req'[w].signer))
            => (result'[w].err = "authorization" /\ result'[w].cred = NoCred)
       /\ (info'[w] # info[w] /\ info'[w] # NoInfo)
            => /\ events' = events
               /\ IF Denied(info'[w].req.signer)
                  THEN /\ info'[w].err = "authorization"
                       /\ info'[w].events = <<>>
                  ELSE info'[w].err = "none"
    ]_vars

\* address 1 holds a credential of a day ago, still worth reissuing, and an
\* ALLOW rule for the other resource; its DENY rule has refused its request
C12_Witness ==
  /\ pc[1] = "done"
  /\ result[1] = [err |-> "authorization", cred |-> NoCred]
  /\ req[1].signer = 1
  /\ rules = {Rule(1, CredentialService, Deny), Rule(1, 1, Allow)}
  /\ events = {Event(1, StartTime, CredentialIssued, ot) : ot \in OperatorTypes}
  /\ clock = StartTime + Day
  /\ info[1].err = "authorization"
  /\ info[1].req.signer = 1

----------------------------------------------------------------------------
(* Specification SpecReq: the service of TestCreateCredentialRequests,     *)
(* built on a fake clock started at the system time, with a registered     *)
(* node and the withdrawal addresses of solo validators.  Advancing the    *)
(* fake clock goes with restamping the registries, as in the lifecycle     *)
(* test; the system clock passes on its own.                               *)

\* neither clock is followed past this second
ReqHorizon == StartTime + 2 * (credsRequestMaxAge + 1)

\* the ages at which a request is as old as it may be, and one second older
ReqAges == {credsRequestMaxAge, credsRequestMaxAge + 1}

\* the messages of the test and messages timestamped by either clock
SignedMessages ==
  {Msg(t - d) : t \in {clock, wall}, d \in {0} \cup ReqAges}
    \cup {Msg(0), ZeroPadded, Malformed}

InitReq ==
  /\ clock = StartTime
  /\ wall = clock
  /\ events = {}
  /\ rules = {}
  /\ schema = Migrated
  /\ nodes = {1}
  /\ nodesLastUpdated = clock
  /\ withdrawalAddresses = Addrs \ {1}
  /\ wdLastUpdated = clock
  /\ enableSoloValidators = TRUE
  /\ Idle

NextReq ==
  \/ \E a \in Addrs \cup {NoAddr}, ot \in OperatorTypes, msg \in SignedMessages :
       Submit(1, a, ot, msg)
  \/ DenyCheck(1, NoFault)
  \/ Begin(1, NoFault)
  \/ Transact(1, NoFault)
  \/ Return(1)
  \/ \E d \in ReqAges : clock + d <= ReqHorizon /\ AdvanceRefreshed(clock + d)
  \/ \E d \in ReqAges : wall + d <= ReqHorizon /\ SystemTimePasses(wall + d)

SpecReq == InitReq /\ [][NextReq]_vars

\* the request in the hands of handler w carries the message "Rescue Node 0"
\* and the signature of a registered Rocket Pool node
RescueNode0(w) ==
  /\ pc[w] = "done"
  /\ req[w].msg = [digits |-> 1, value |-> 0]
  /\ req[w].ot = OT_ROCKETPOOL
  /\ req[w].signer \in nodes
  /\ clock <= nodesLastUpdated + nodeRegistryMaxAge

\* C13 as stated: a request whose message is "Rescue Node 0", signed by a
\* registered node, is rejected with AUTHENTICATION.
C13_RescueNode0Authentication ==
  \A w \in Workers : RescueNode0(w) => result[w].err = "authentication"

\* C13: a request whose message is "Rescue Node 0", signed by a registered
\* node, is rejected with VALIDATION and gets no credential: its timestamp
\* is not the ten digits that the request pattern requires.
C13_RescueNode0Validation ==
  \A w \in Workers :
    RescueNode0(w) => result[w] = [err |-> "validation", cred |-> NoCred]

C13_Witness ==
  /\ RescueNode0(1)
  /\ req[1].signer = 1
  /\ result[1].err = "validation"
  /\ events = {}

\* C14: a request whose message timestamp ts has now - ts > 15 minutes on the
\* clock of the quota and expiry decisions (s.clock) is rejected with
\* AUTHENTICATION and writes no event; a signed request with now - ts <= 15
\* minutes is not rejected for its age.
C14_RequestAgeOnServiceClock ==
  [][\A w \in Workers :
       (pc[w] = "idle" /\ pc'[w] # "idle" /\ req'[w].ts # BadFormat)
         => /\ (clock - req'[w].ts > credsRequestMaxAge)
                 => /\ pc'[w] = "done"
                    /\ result'[w] = [err |-> "authentication", cred |-> NoCred]
                    /\ events' = events
            /\ (clock - req'[w].ts <= credsRequestMaxAge /\ req'[w].signer # NoAddr)
                 => ~(pc'[w] = "done" /\ result'[w].err = "authentication")
    ]_vars

----------------------------------------------------------------------------
(* Specification SpecRetry: one handler in CreateCredentialWithRetry, with *)
(* a storage that may fail at any statement of any attempt.                *)

RetryHistories ==
  { \* a fresh store
    {},
    \* a REVOKED row of address 1 bearing the current second
    {Event(1, StartTime, CredentialRevoked, OT_ROCKETPOOL)} }

InitRetry ==
  /\ clock = StartTime
  /\ wall = clock
  /\ events \in RetryHistories
  /\ rules \in {{}, {Rule(NumAddrs, CredentialService, Deny)}}
  /\ schema = Migrated
  /\ nodes = Addrs
  /\ nodesLastUpdated = clock
  /\ withdrawalAddresses = {1}
  /\ wdLastUpdated = clock
  /\ enableSoloValidators = TRUE
  /\ Idle

NextRetry ==
  \/ \E a \in Addrs \cup {NoAddr}, ot \in OperatorTypes,
        msg \in {Msg(clock), Msg(clock - credsRequestMaxAge - 1), Malformed} :
       Submit(1, a, ot, msg)
  \/ \E f \in FaultsAt({"deny"}) : DenyCheck(1, f)
  \/ \E f \in FaultsAt({"begin"}) : Begin(1, f)
  \/ \E f \in FaultsAt({"query", "insert", "commit"}) : Transact(1, f)
  \/ Wake(1)
  \/ Return(1)

SpecRetry == InitRetry /\ [][NextRetry]_vars

\* sqlite3.ErrLocked, sqlite3.ErrBusy, sqlite3.ErrConstraint
Transient == {"locked", "busy", "constraint"}

\* how far CreateCredentialWithRetry has got: the attempts made and, within
\* the attempt, the statement reached
Progress(w) ==
  IF pc[w] = "done" THEN 5 * 12
  ELSE 5 * try[w] + (CASE pc[w] = "idle" -> 0
                       [] pc[w] = "deny" -> 1
                       [] pc[w] = "begin" -> 2
                       [] pc[w] = "tx" -> 3
                       [] pc[w] = "sleep" -> 4)

\* C15: CreateCredentialWithRetry never starts a 13th call of
\* CreateCredential; every step of the loop brings it nearer to its end, so
\* it terminates; a further call is made only after a busy, locked or
\* constraint error of the previous one; when the 12th call fails that way
\* too the loop ends with no credential and that last error.
C15_RetryBounded ==
  [][\A w \in Workers :
       /\ try'[w] + 1 <= 12
       /\ (try'[w] > try[w])
            => /\ try'[w] = try[w] + 1
               /\ result[w].err \in Transient
               /\ result[w].cred = NoCred
       /\ (pc[w] \notin {"idle", "done"} /\ <<pc'[w], try'[w]>> # <<pc[w], try[w]>>)
            => Progress(w)' > Progress(w)
       /\ (pc[w] = "sleep" /\ try[w] + 1 = 12 /\ pc'[w] # "sleep")
            => /\ pc'[w] = "done"
               /\ try'[w] = try[w]
               /\ result'[w] = result[w]
               /\ result'[w].cred = NoCred
               /\ result'[w].err \in Transient
    ]_vars

\* twelve calls have failed on a constraint violation and the handler has
\* the last error in hand
C15_Witness ==
  /\ pc[1] = "done"
  /\ try[1] + 1 = 12
  /\ result[1] = [err |-> "constraint", cred |-> NoCred]

\* C16: a call of CreateCredential that fails with an error other than busy,
\* locked or constraint ends the loop at once: no sleep and no further call
\* follow, and the handler returns that error with no credential.
C16_NoRetryOnOtherErrors ==
  [][\A w \in Workers :
       /\ (result'[w] # result[w]
             /\ result'[w].err \notin {"pending", "none"} \cup Transient)
            => /\ pc'[w] = "done"
               /\ result'[w].cred = NoCred
       /\ (pc[w] = "done" /\ <<pc'[w], try'[w], result'[w]>> # <<pc[w], try[w], result[w]>>)
            => /\ pc'[w] = "idle"
               /\ events' = events
    ]_vars

\* a storage error that is not one of contention has hit the commit of the
\* first call
C16_Witness ==
  /\ pc[1] = "done"
  /\ try[1] = 0
  /\ result[1] = [err |-> "ioerr", cred |-> NoCred]
  /\ req[1].signer = 1
  /\ events = {}

----------------------------------------------------------------------------
(* Specification SpecRefresh: the two refresh tasks run, statement by      *)
(* statement, beside a request handler, from the start of the service      *)
(* until it has issued its first credential.                               *)

\* the seconds at which the tickers are followed: the first tick of both
\* tasks, and the tick 30 seconds later of a task that failed
RefreshTicks == {StartTime + 1, StartTime + 1 + 30}

\* the lists a source answers with: no address, address 1, every address
SourceLists == {{}, {1}, Addrs}

InitRefresh ==
  /\ clock = StartTime
  /\ wall = clock
  /\ events = {}
  /\ rules = {}
  /\ schema = Migrated
  /\ nodes = {}
  /\ nodesLastUpdated = 0
  /\ withdrawalAddresses = {}
  /\ wdLastUpdated = 0
  /\ enableSoloValidators = TRUE
  /\ Idle

NextRefresh ==
  \/ \E okProxy, okScan \in BOOLEAN, ids \in SourceLists :
       events = {} /\ UpdateNodes(okProxy, okScan, ids)
  \/ \E ok \in BOOLEAN, ids \in SourceLists :
       events = {} /\ FetchWithdrawalAddresses(ok, ids)
  \/ ResetWithdrawalAddresses
  \/ AddWithdrawalAddresses
  \/ StampWithdrawalAddresses
  \/ \E a \in Addrs, ot \in OperatorTypes : events = {} /\ Submit(1, a, ot, Msg(clock))
  \/ DenyCheck(1, NoFault)
  \/ Begin(1, NoFault)
  \/ Transact(1, NoFault)
  \/ Return(1)
  \/ \E t \in RefreshTicks : events = {} /\ Advance(t)

SpecRefresh == InitRefresh /\ [][NextRefresh]_vars

\* C17: while the withdrawal-address refresher replaces the set, the
\* membership check of a solo request answers as the complete old set or as
\* the complete new set would: the request of an address goes on to the
\* deny-rule lookup exactly when the address is in the old set, or exactly
\* when it is in the new set.
C17_ReplacementLooksAtomic ==
  [][\A w \in Workers :
       (/\ pc[w] = "idle" /\ pc'[w] # "idle"
        /\ req'[w].ot = OT_SOLO
        /\ wdTask.pc \in {"reset", "add"}
        /\ clock <= wdLastUpdated + nodeRegistryMaxAge)
         => \/ (pc'[w] = "deny") = (req'[w].signer \in wdTask.old)
            \/ (pc'[w] = "deny") = (req'[w].signer \in wdTask.fetched)
    ]_vars

\* C18: a cycle of the withdrawal-address refresher whose fetch failed
\* leaves lastUpdated as it was and the ticker at 30 seconds; a cycle whose
\* fetch succeeded stamps lastUpdated and sets the ticker to 300 seconds.
C18_WithdrawalFailureNotStamped ==
  [][(wdTask.pc = "stamp" /\ wdTask'.pc = "wait")
       => IF wdTask.err
          THEN wdLastUpdated' = wdLastUpdated /\ wdTask'.interval = 30
          ELSE wdLastUpdated' = wall /\ wdTask'.interval = 300
    ]_vars

\* C19: a cycle of the node refresher asks the rescue proxy first and
\* rocketscan only after the rescue proxy failed; when both failed
\* lastUpdated and the registry are left as they were and the ticker is set
\* to 30 seconds; otherwise lastUpdated is stamped and the ticker is set to
\* 300 seconds.
C19_NodeRefreshCycle ==
  [][(nodesTask' # nodesTask \/ nodesLastUpdated' # nodesLastUpdated \/ nodes' # nodes)
       => LET c == nodesTask'.consulted IN
            /\ Len(c) \in {1, 2}
            /\ c[1].src = "rescue-proxy"
            /\ Len(c) = 2 => (~c[1].ok /\ c[2].src = "rocketscan")
            /\ IF \A i \in 1..Len(c) : ~c[i].ok
               THEN /\ nodesLastUpdated' = nodesLastUpdated
                    /\ nodes' = nodes
                    /\ nodesTask'.interval = 30
               ELSE /\ nodesLastUpdated' = wall
                    /\ nodesTask'.interval = 300
    ]_vars

\* half a minute after a cycle in which rocketscan answered, both sources
\* have failed: the stamp is the old one and the ticker is at 30 seconds
C19_Witness ==
  /\ nodesTask.consulted = <<[src |-> "rescue-proxy", ok |-> FALSE],
                             [src |-> "rocketscan", ok |-> FALSE]>>
  /\ nodesTask.interval = 30
  /\ nodesLastUpdated = StartTime
  /\ wall > nodesLastUpdated
  /\ nodes = {1}

----------------------------------------------------------------------------
(* Specification SpecInfo: the operator of Spec also asks for its operator *)
(* info, as in TestGetOperatorInfo; the store may hold rows of another     *)
(* address and rows of another type.                                       *)

InfoHistories ==
  { \* a fresh store
    {},
    \* a day old: a REVOKED row of address 1, an ISSUED row of address 2 and
    \* an ISSUED row of address 1 as a solo operator
    {Event(1, StartTime - Day, CredentialRevoked, OT_ROCKETPOOL),
     Event(2, StartTime - Day, CredentialIssued, OT_ROCKETPOOL),
     Event(1, StartTime - Day, CredentialIssued, OT_SOLO)} }

InitInfo ==
  /\ clock = StartTime
  /\ wall = clock
  /\ events \in InfoHistories
  /\ rules = {}
  /\ schema = Migrated
  /\ nodes = {1}
  /\ nodesLastUpdated = StartTime
  /\ withdrawalAddresses = {1}
  /\ wdLastUpdated = StartTime
  /\ enableSoloValidators = TRUE
  /\ Idle

\* the operator has the answer to a call before it makes the next one
NextInfo ==
  \/ info[1] = NoInfo /\ Submit(1, 1, OT_ROCKETPOOL, Msg(clock))
  \/ DenyCheck(1, NoFault)
  \/ Begin(1, NoFault)
  \/ Transact(1, NoFault)
  \/ Return(1)
  \/ \E t \in AdvanceTargets : info[1] = NoInfo /\ AdvanceRefreshed(t)
  \/ \E ot \in OperatorTypes : GetOperatorInfo(1, 1, 1, ot, Msg(clock), NoFault)
  \/ ReturnInfo(1)

SpecInfo == InitInfo /\ [][NextInfo]_vars

\* the timestamps of the ISSUED events of (a, ot) with now - window < t <= now
issuedInWindow(a, ot) ==
  {e.timestamp : e \in {x \in events : /\ x.node_id = a
                                        /\ x.operator_type = ot
                                        /\ x.type = 0
                                        /\ clock - 365 * 24 * 3600 < x.timestamp
                                        /\ x.timestamp <= clock}}

\* a registered, unrefused operator asks with a well-formed, fresh message
AuthorizedInfoRequest(r) ==
  /\ r.ts # BadFormat
  /\ wall - r.ts <= credsRequestMaxAge
  /\ r.signer # NoAddr /\ r.signer = r.expected
  /\ IF r.ot = OT_ROCKETPOOL THEN isNodeRegistered(r.signer)
     ELSE enableSoloValidators /\ isWithdrawalAddress(r.signer)
  /\ ~\E x \in rules : x.node_id = r.signer /\ x.resource = 0 /\ x.action = 1

\* C20: the answer to an authorized info request is a success (status 200,
\* no error) and lists, newest first, the timestamps of the ISSUED events of
\* (address, operatorType) with now - window < timestamp <= now: all of them
\* when they are at most quota(ot), else the quota(ot) most recent; with no
\* such event the list is empty and the answer still a success; the store is
\* not written.
C20_OperatorInfo ==
  [][\A w \in Workers :
       (info'[w] # info[w] /\ info'[w] # NoInfo /\ AuthorizedInfoRequest(info'[w].req))
         => LET r == info'[w].req
                S == issuedInWindow(r.signer, r.ot)
                list == info'[w].events
                quota == StatedQuota(r.ot)
            IN /\ info'[w].err = "none"
               /\ info'[w].status = 200
               /\ events' = events
               /\ \A i \in 1..Len(list) : list[i] \in S
               /\ \A i, j \in 1..Len(list) : i < j => list[i] > list[j]
               /\ Len(list) = IF Cardinality(S) <= quota THEN Cardinality(S) ELSE quota
               /\ \A t \in S : (\A i \in 1..Len(list) : list[i] # t)
                                  => \A i \in 1..Len(list) : t < list[i]
    ]_vars

\* the oldest of the four credentials has just left the window: exactly a
\* year after it was issued the list holds the three later ones
C20_Witness ==
  /\ info[1].err = "none"
  /\ info[1].req.ot = OT_ROCKETPOOL
  /\ Len(info[1].events) = 3
  /\ Cardinality({e \in events : e.operator_type = OT_ROCKETPOOL}) = 4
  /\ \E e \in events : /\ e.operator_type = OT_ROCKETPOOL
                       /\ e.timestamp + 365 * 24 * 3600 = clock

----------------------------------------------------------------------------
(* Specification SpecSchema: the service is started on a database file     *)
(* that is new, or holds the table of a release without operator types;    *)
(* it then serves requests and is started again.                           *)

\* the contents of a legacy table: at most two rows, PRIMARY KEY (node_id, timestamp)
LegacyTables ==
  {R \in SUBSET {LegacyEvent(a, t, ty) : a \in Addrs, t \in {StartTime - Day, StartTime},
                                         ty \in {CredentialIssued, CredentialRevoked}} :
     /\ Cardinality(R) <= 2
     /\ pkUnique([schema |-> Legacy, rows |-> R])}

InitSchema ==
  /\ clock = StartTime
  /\ wall = clock
  /\ \/ schema = Absent /\ events = {}
     \/ schema = Legacy /\ events \in LegacyTables
  /\ rules = {}
  /\ nodes = Addrs
  /\ nodesLastUpdated = clock
  /\ withdrawalAddresses = Addrs
  /\ wdLastUpdated = clock
  /\ enableSoloValidators = TRUE
  /\ Idle

NextSchema ==
  \/ ServiceInit
  \/ \E a \in Addrs, ot \in OperatorTypes :
       schema = Migrated /\ Submit(1, a, ot, Msg(clock))
  \/ DenyCheck(1, NoFault)
  \/ Begin(1, NoFault)
  \/ Transact(1, NoFault)
  \/ Wake(1)
  \/ Return(1)

SpecSchema == InitSchema /\ [][NextSchema]_vars

\* C21: Init run on the database as it is leaves a table with the columns
\* and the primary key (node_id, operator_type, timestamp) of the migrated
\* schema; from a legacy table it keeps every row, with operator_type 0,
\* and adds none; on a migrated table it changes nothing, and so does a
\* second run after the first.
C21_InitIdempotentLossless ==
  LET db == [schema |-> schema, rows |-> events]
      once == createTables(db)
      twice == createTables(once)
  IN /\ once.schema.pk = <<"node_id", "operator_type", "timestamp">>
     /\ "operator_type" \in once.schema.cols
     /\ pkUnique(once)
     /\ twice = once
     /\ ("operator_type" \in schema.cols) => once = db
     /\ ("operator_type" \notin schema.cols)
          => /\ \A r \in events :
                  \E m \in once.rows : /\ m.node_id = r.node_id /\ m.timestamp = r.timestamp
                                       /\ m.type = r.type /\ m.operator_type = 0
             /\ Cardinality(once.rows) = Cardinality(events)

\* a legacy table of two rows has been migrated, the service has issued a
\* credential to a solo operator beside them, and is about to be started again
C21_Witness ==
  /\ schema = Migrated
  /\ Cardinality({e \in events : e.operator_type = 0 /\ e.timestamp <= StartTime - Day}) = 2
  /\ \E e \in events : e.operator_type = OT_SOLO /\ e.timestamp = StartTime
  /\ ENABLED ServiceInit

----------------------------------------------------------------------------
(* Specification SpecSig: one handler of the service of                    *)
(* TestCreateCredentialRequests receives signatures of every shape.        *)

\* lengths of a signature: right, one byte short, empty
SigLengths == {SignatureLength, SignatureLength - 1, 0}

\* last bytes of a signature: the four recovery ids accepted and their neighbours
SigVs == {0, 1, 2, 26, 27, 28, 29}

Signatures ==
  [len : SigLengths, v : SigVs,
   rs : [key : Addrs \cup {NoAddr}, recid : {0, 1}, msg : {Msg(clock), Malformed}]]

InitSig ==
  /\ clock = StartTime
  /\ wall = clock
  /\ events = {}
  /\ rules = {}
  /\ schema = Migrated
  /\ nodes = {1}
  /\ nodesLastUpdated = clock
  /\ withdrawalAddresses = Addrs \ {1}
  /\ wdLastUpdated = clock
  /\ enableSoloValidators = TRUE
  /\ Idle

NextSig ==
  \/ \E sig \in Signatures, ot \in OperatorTypes, msg \in {Msg(clock), Malformed} :
       Receive(1, sig, ot, msg)
  \/ DenyCheck(1, NoFault)
  \/ Begin(1, NoFault)
  \/ Transact(1, NoFault)
  \/ Return(1)

SpecSig == InitSig /\ [][NextSig]_vars

\* C22: for the message and the (r, s) of the request received, recovery
\* answers for v = 27 as for v = 0 and for v = 28 as for v = 1; the handler
\* goes on with the address recovered; a signature of another length than
\* 65, or with v outside {0, 1, 27, 28}, yields an error, and the request,
\* its message being well-formed and fresh, ends with AUTHENTICATION.
C22_RecoveryIdNormalised ==
  [][\A w \in Workers :
       (pc[w] = "idle" /\ pc'[w] # "idle")
         => LET m == req'[w].msg
                sg == req'[w].sig
                V(x) == [sg EXCEPT !.len = 65, !.v = x]
            IN /\ RecoverAddressFromSignature(m, V(27)) = RecoverAddressFromSignature(m, V(0))
               /\ RecoverAddressFromSignature(m, V(28)) = RecoverAddressFromSignature(m, V(1))
               /\ (sg.rs.key # NoAddr /\ sg.rs.msg = m)
                    => sg.rs.key \in {RecoverAddressFromSignature(m, V(27)),
                                      RecoverAddressFromSignature(m, V(28))}
               /\ req'[w].signer = RecoverAddressFromSignature(m, sg)
               /\ (sg.len # 65 \/ sg.v \notin {0, 1, 27, 28})
                    => /\ req'[w].signer = NoAddr
                       /\ (req'[w].ts # BadFormat /\ wall - req'[w].ts <= credsRequestMaxAge)
                            => /\ pc'[w] = "done"
                               /\ result'[w] = [err |-> "authentication", cred |-> NoCred]
    ]_vars

\* the registered node has signed the message, the signature bears v = 0 or
\* 1 as some wallets write it, and the node has its credential
C22_Witness ==
  /\ pc[1] = "done"
  /\ req[1].sig.len = 65
  /\ req[1].sig.v \in {0, 1}
  /\ req[1].sig.rs.key = 1
  /\ req[1].signer = 1
  /\ result[1].err = "none"
  /\ result[1].cred.nodeId = 1

----------------------------------------------------------------------------
\* C23: a credential that CreateCredentialWithRetry returns, newly issued
\* or reissued, after retries or not, bears the address recovered from the
\* signature of the request and the operator type of the request, and
\* verifies under the secret of the service, and under no other.
C23_CredentialAuthentic ==
  \A w \in Workers :
    (pc[w] = "done" /\ result[w].err = "none")
      => /\ result[w].cred # NoCred
         /\ result[w].cred.nodeId = RecoverAddressFromSignature(req[w].msg, req[w].sig)
         /\ result[w].cred.nodeId # NoAddr
         /\ result[w].cred.operatorType = req[w].ot
         /\ Verify(CredentialSecret, result[w].cred)
         /\ ~Verify(OtherSecret, result[w].cred)

\* an operator has an older credential reissued, at the second attempt
C23_Witness ==
  /\ pc[1] = "done"
  /\ result[1].err = "none"
  /\ result[1].cred.nodeId = req[1].signer
  /\ try[1] > 0
  /\ result[1].cred.timestamp < clock
  /\ Verify(CredentialSecret, result[1].cred)

----------------------------------------------------------------------------
\* C24: no two rows of the event store agree on (node_id, operator_type,
\* timestamp), so there is at most one ISSUED event per address, operator
\* type and second; a transaction that adds a row adds one row, ISSUED, for
\* a key that was free; an insert for a taken key ends the attempt with a
\* constraint error, no credential, and the store as it was.
C24_OneEventPerKey ==
  [][/\ pkUnique([schema |-> schema, rows |-> events])
     /\ pkUnique([schema |-> schema, rows |-> events])'
     /\ \A a \in Addrs, ot \in OperatorTypes, t \in {e.timestamp : e \in events'} :
          Cardinality({e \in events' : /\ e.node_id = a /\ e.operator_type = ot
                                        /\ e.timestamp = t /\ e.type = 0}) <= 1
     /\ \A w \in Workers :
          /\ (pc[w] = "tx" /\ pc'[w] # "tx" /\ events' # events)
               => \E e \in events' :
                    /\ events' = events \cup {e}
                    /\ e = Event(req[w].signer, clock, 0, req[w].ot)
                    /\ ~\E x \in events : /\ x.node_id = e.node_id
                                          /\ x.operator_type = e.operator_type
                                          /\ x.timestamp = e.timestamp
          /\ (pc[w] = "tx" /\ pc'[w] # "tx" /\ result'[w].err = "constraint")
               => /\ events' = events
                  /\ result'[w].cred = NoCred
                  /\ \E x \in events : /\ x.node_id = req[w].signer
                                       /\ x.operator_type = req[w].ot
                                       /\ x.timestamp = clock
    ]_vars

\* the key of the request of address 1 is taken by a row of this second: its
\* inserts have failed, while address 2 got its credential in the same second
C24_Witness ==
  /\ pc[1] = "done"
  /\ result[1] = [err |-> "constraint", cred |-> NoCred]
  /\ req[1].signer = 1
  /\ events = {Event(1, StartTime, CredentialRevoked, OT_ROCKETPOOL),
               Event(2, StartTime, CredentialIssued, OT_ROCKETPOOL)}

----------------------------------------------------------------------------
(* Specification SpecRecheck: a request meets contention on the storage    *)
(* while the withdrawal-address refresher replaces its registry.           *)

InitRecheck ==
  /\ clock = StartTime
  /\ wall = clock
  /\ events = {}
  /\ rules = {}
  /\ schema = Migrated
  /\ nodes = {1}
  /\ nodesLastUpdated = clock
  /\ withdrawalAddresses = {1}
  /\ wdLastUpdated = clock
  /\ enableSoloValidators = TRUE
  /\ Idle

NextRecheck ==
  \/ \E a \in Addrs, ot \in OperatorTypes : Submit(1, a, ot, Msg(clock))
  \/ DenyCheck(1, NoFault)
  \/ \E f \in TransientAt({"begin"}) : Begin(1, f)
  \/ \E f \in TransientAt({"query", "insert", "commit"}) : Transact(1, f)
  \/ Wake(1)
  \/ Return(1)
  \/ \E ok \in BOOLEAN, ids \in SourceLists : UpdateWithdrawalAddresses(ok, ids)

SpecRecheck == InitRecheck /\ [][NextRecheck]_vars

\* handler w starts a further attempt in this step
Retries(w) == pc[w] = "sleep" /\ try'[w] = try[w] + 1

\* C25 as stated: a retry re-executes the transactional block only; the
\* checks that precede it are made once per request, so that a further
\* attempt starts at the transaction and the deny-rule lookup is never
\* made in it.
C25_RetryOnlyTransaction ==
  [][\A w \in Workers :
       /\ Retries(w) => pc'[w] = "begin"
       /\ (pc[w] = "deny") => try[w] = 0
    ]_vars

\* C25: a retry re-executes the whole of CreateCredential: pattern,
\* freshness, signature recovery and registry authorization are evaluated
\* again, on the state of that moment, and the deny-rule lookup follows;
\* a request that passed them in one attempt is refused in a later one
\* when they fail then.
C25_RetryWholeAttempt ==
  [][\A w \in Workers :
       Retries(w)
         => /\ result[w].err \in Transient
            /\ req'[w] = req[w]
            /\ req[w].signer = RecoverAddressFromSignature(req[w].msg, req[w].sig)
            /\ IF /\ getTimestampFromRequest(req[w].msg) # BadFormat
                  /\ wall - req[w].ts <= credsRequestMaxAge
                  /\ req[w].signer # NoAddr
                  /\ IF req[w].ot = OT_ROCKETPOOL THEN isNodeRegistered(req[w].signer)
                     ELSE enableSoloValidators /\ isWithdrawalAddress(req[w].signer)
               THEN pc'[w] = "deny"
               ELSE /\ pc'[w] = "done"
                    /\ result'[w].err \in {"validation", "authentication", "authorization"}
                    /\ result'[w].cred = NoCred
                    /\ events' = events
    ]_vars

\* the solo request of address 1 passed the checks and met a busy storage;
\* by the second attempt the refreshed registry no longer held the address
C25_Witness ==
  /\ pc[1] = "done"
  /\ try[1] = 1
  /\ req[1].signer = 1
  /\ req[1].ot = OT_SOLO
  /\ result[1] = [err |-> "authorization", cred |-> NoCred]
  /\ 1 \notin withdrawalAddresses
  /\ events = {}

----------------------------------------------------------------------------
(* Specification SpecOrder: requests that fail any of the checks, alone or *)
(* several at once, and requests that pass them and meet contention.        *)

\* the messages of a request: of this moment, too old, of another shape
OrderMessages == {Msg(clock), Msg(clock - credsRequestMaxAge - 1), Malformed}

InitOrder ==
  /\ clock = StartTime
  /\ wall = clock
  /\ events = {}
  /\ rules \in {{}, {Rule(1, CredentialService, Deny)}}
  /\ schema = Migrated
  /\ nodes = {1}
  /\ nodesLastUpdated = clock
  /\ withdrawalAddresses = Addrs
  /\ wdLastUpdated = clock
  /\ enableSoloValidators \in BOOLEAN
  /\ Idle

NextOrder ==
  \/ \E a \in Addrs \cup {NoAddr}, ot \in OperatorTypes, msg \in OrderMessages :
       Submit(1, a, ot, msg)
  \/ DenyCheck(1, NoFault)
  \/ \E f \in TransientAt({"begin"}) : Begin(1, f)
  \/ \E f \in TransientAt({"query", "insert", "commit"}) : Transact(1, f)
  \/ Wake(1)
  \/ Return(1)

SpecOrder == InitOrder /\ [][NextOrder]_vars

\* the message has the shape `Rescue Node <10 digits>`
PatternOk(msg) == msg.digits = 10
\* the time the message states is at most 15 minutes behind
FreshOk(msg) == wall - msg.value <= credsRequestMaxAge
\* the signature yields an address
SignatureOk(msg, sig) == RecoverAddressFromSignature(msg, sig) # NoAddr
\* the registry of the operator type, the solo toggle included, has the address
RegistryOk(a, ot) ==
  IF ot = OT_ROCKETPOOL THEN clock <= nodesLastUpdated + nodeRegistryMaxAge /\ a \in nodes
  ELSE /\ enableSoloValidators
       /\ clock <= wdLastUpdated + nodeRegistryMaxAge
       /\ a \in withdrawalAddresses

\* C26: in every attempt the handler comes to the deny-rule lookup only
\* when pattern, freshness, signature recovery and registry authorization
\* passed, to Begin only from a deny-rule lookup that found no DENY rule,
\* and to the transaction only from Begin; it passes through no other
\* step in between, so that an event is written only by the handler that
\* holds the transaction, for the address and operator type that passed
\* the checks of that attempt.
C26_ChecksPrecedeTransaction ==
  [][\A w \in Workers :
       /\ (pc'[w] = "deny" /\ pc[w] # "deny")
            => /\ pc[w] \in {"idle", "sleep"}
               /\ PatternOk(req'[w].msg)
               /\ FreshOk(req'[w].msg)
               /\ SignatureOk(req'[w].msg, req'[w].sig)
               /\ req'[w].signer = RecoverAddressFromSignature(req'[w].msg, req'[w].sig)
               /\ RegistryOk(req'[w].signer, req'[w].ot)
       /\ (pc[w] = "deny" /\ pc'[w] # "deny")
            => /\ pc'[w] \in {"begin", "done"}
               /\ pc'[w] = "begin" <=> ~Denied(req[w].signer)
               /\ req'[w] = req[w] /\ try'[w] = try[w]
       /\ (pc'[w] = "begin" /\ pc[w] # "begin") => pc[w] = "deny"
       /\ (pc'[w] = "tx" /\ pc[w] # "tx")
            => pc[w] = "begin" /\ conn' = w /\ req'[w] = req[w] /\ try'[w] = try[w]
       /\ (pc[w] = "tx" /\ events' # events)
            => /\ conn = w
               /\ events' = events \cup {Event(req[w].signer, clock, CredentialIssued, req[w].ot)}
       /\ (events' # events) => \E v \in Workers : pc[v] = "tx"
    ]_vars

\* address 1 passed the checks twice: the first attempt met a busy storage,
\* the second one committed the event
C26_Witness ==
  /\ pc[1] = "done"
  /\ try[1] = 1
  /\ result[1].err = "none"
  /\ events = {Event(1, clock, CredentialIssued, req[1].ot)}
  /\ req[1].signer = 1
  /\ ~Denied(1)

----------------------------------------------------------------------------
(* Specification SpecStale: both registries were filled by a refresh at    *)
(* start-up; from then on every fetch of both refreshers fails, while the  *)
(* hour of nodeRegistryMaxAge runs out and requests keep coming.           *)

\* the last second at which a registry refreshed at start-up is fresh, and the next one
StaleTicks == {StartTime + nodeRegistryMaxAge, StartTime + nodeRegistryMaxAge + 1}

InitStale ==
  /\ clock = StartTime
  /\ wall = clock
  /\ events = {}
  /\ rules = {}
  /\ schema = Migrated
  /\ nodes = Addrs
  /\ nodesLastUpdated = clock
  /\ withdrawalAddresses = Addrs
  /\ wdLastUpdated = clock
  /\ enableSoloValidators = TRUE
  /\ Idle

NextStale ==
  \/ \E a \in Addrs, ot \in OperatorTypes : Submit(1, a, ot, Msg(clock))
  \/ DenyCheck(1, NoFault)
  \/ Begin(1, NoFault)
  \/ Transact(1, NoFault)
  \/ Return(1)
  \/ \E t \in StaleTicks : Advance(t)
  \/ \E ids \in SourceLists : UpdateNodes(FALSE, FALSE, ids)
  \/ \E ids \in SourceLists : UpdateWithdrawalAddresses(FALSE, ids)

SpecStale == InitStale /\ [][NextStale]_vars

\* C28: the last successful refresh of either registry is the one of
\* start-up; a request that arrives more than an hour after it is rejected
\* with AUTHORIZATION and writes no event, for ROCKETPOOL on account of the
\* node registry and for SOLO on account of the withdrawal-address
\* registry, whatever the sets contain.
C28_StaleRegistryRejects ==
  [][\A w \in Workers :
       (pc[w] = "idle" /\ pc'[w] # "idle" /\ clock > StartTime + nodeRegistryMaxAge)
         => /\ pc'[w] = "done"
            /\ result'[w] = [err |-> "authorization", cred |-> NoCred]
            /\ events' = events
    ]_vars

----------------------------------------------------------------------------
\* C29: a credential returned at time now with timestamp T has
\* T + authValidityWindow(ot) > now, and either more than 48 hours of
\* validity left or the ISSUED events of the current window number exactly
\* quota(ot).
C29_NoNearDeadCredential ==
  [][\A w \in Workers :
       (Transacted(w) /\ result'[w].err = "none")
         => LET c == result'[w].cred
                ot == req[w].ot
                left == c.timestamp + AuthValidityWindow(ot) - clock
                count == Cardinality({e \in events' :
                           /\ e.node_id = req[w].signer
                           /\ e.operator_type = ot
                           /\ e.type = CredentialIssued
                           /\ e.timestamp > clock - credsQuotaWindow(ot)})
            IN /\ c.nodeId = req[w].signer /\ c.operatorType = ot
               /\ left > 0
               /\ left > credsMinValidityWindow \/ count = StatedQuota(ot)
    ]_vars

\* the third solo credential of the year is handed back with one second
\* of validity left
C29_Witness ==
  /\ pc[1] = "done"
  /\ result[1].err = "none"
  /\ req[1].ot = OT_SOLO
  /\ result[1].cred.timestamp + AuthValidityWindow(OT_SOLO) - clock = 1
  /\ Cardinality(inWindow(1, OT_SOLO)) = 3

----------------------------------------------------------------------------
(* Specification SpecStop: the node refresher runs from start-up, its      *)
(* sources answer or fail, and main calls Stop once, at any moment.        *)

InitStop ==
  /\ clock = StartTime
  /\ wall = clock
  /\ events = {}
  /\ rules = {}
  /\ schema = Migrated
  /\ nodes = {}
  /\ nodesLastUpdated = 0
  /\ withdrawalAddresses = {}
  /\ wdLastUpdated = 0
  /\ enableSoloValidators = TRUE
  /\ Idle

NextStop ==
  \/ TickerFires
  \/ RunTick
  \/ \E okProxy, okScan \in BOOLEAN, ids \in SourceLists :
       nodesTask.pc = "cycle" /\ UpdateNodes(okProxy, okScan, ids)
  \/ RunDone
  \/ Stop
  \/ \E t \in RefreshTicks : Advance(t)

SpecStop == InitStop /\ [][NextStop]_vars

\* C30: a call of Stop made while Run is in a refresh cycle returns once
\* that cycle is over: Run begins no further cycle while Stop waits; when
\* Stop has returned Run has terminated, and from then on neither the
\* registry set nor lastUpdated changes.
C30_StopEndsRun ==
  [][/\ (nodesTask.stop = "sending" /\ nodesTask.stopAt = "cycle")
          => ~(nodesTask.pc = "wait" /\ nodesTask'.pc = "cycle")
     /\ nodesTask.stop = "returned"
          => /\ nodesTask.pc = "stopped" /\ nodesTask'.pc = "stopped"
             /\ nodes' = nodes
             /\ nodesLastUpdated' = nodesLastUpdated
    ]_vars

----------------------------------------------------------------------------
\* C31: the withdrawal-address set is installed by replacement: the step
\* that ends a successful fetch leaves exactly the list fetched, a failed
\* fetch goes on without touching the set, and nothing but the two
\* registry steps of a refresh in progress changes the set; so between
\* refreshes the set is the list of the most recent successful fetch.
C31_WithdrawalSetReplaced ==
  [][/\ (wdTask.pc = "add" /\ wdTask'.pc # "add")
          => withdrawalAddresses' = wdTask.fetched
     /\ (wdTask.pc = "wait" /\ wdTask'.pc # "wait")
          => /\ withdrawalAddresses' = withdrawalAddresses
             /\ IF wdTask'.err THEN wdTask'.pc = "stamp"
                ELSE wdTask'.pc = "reset" /\ wdTask'.old = withdrawalAddresses
     /\ (withdrawalAddresses' # withdrawalAddresses) => wdTask.pc \in {"reset", "add"}
     /\ (wdTask.pc = "stamp") => ~(wdTask'.pc \in {"reset", "add"})
    ]_vars

\* address 2 got a solo credential while it was listed; the newest list is
\* {1}, the refresh is over and address 2 is no longer a member
C31_Witness ==
  /\ wdTask.pc = "wait"
  /\ withdrawalAddresses = {1}
  /\ \E e \in events : e.node_id = 2 /\ e.operator_type = OT_SOLO

----------------------------------------------------------------------------
\* C32: no step removes an address from the node registry: whatever the
\* sources answer, the set after a step contains the set before it.
C32_NodeRegistryGrows ==
  [][nodes \subseteq nodes']_vars

\* both addresses were added; the rescue proxy then answered with a list
\* (a cycle with a stamp later than the first second), and both are members still
C32_Witness ==
  /\ nodes = Addrs
  /\ nodesTask.consulted = <<[src |-> "rescue-proxy", ok |-> TRUE]>>
  /\ nodesLastUpdated = StartTime + 1 + 30
  /\ nodesTask.interval = 300

----------------------------------------------------------------------------
(* Specification SpecFrame: credential requests and /info requests of     *)
(* every outcome (refused by a check, denied, reissued, issued, over       *)
(* quota) on a store with rules, with faults of the deny-rule lookup and   *)
(* of the listing query.                                                   *)

FrameHistories ==
  { \* a fresh store
    {},
    \* address 1 has used its three solo credentials of the year, the last
    \* of them eleven days ago
    {Event(1, StartTime - d * Day, CredentialIssued, OT_SOLO) : d \in {30, 20, 11}} }

InitFrame ==
  /\ clock = StartTime
  /\ wall = clock
  /\ events \in FrameHistories
  /\ rules \in {{}, {Rule(2, CredentialService, Deny)}}
  /\ schema = Migrated
  /\ nodes = {1}
  /\ nodesLastUpdated = clock
  /\ withdrawalAddresses = Addrs
  /\ wdLastUpdated = clock
  /\ enableSoloValidators = TRUE
  /\ Idle

NextFrame ==
  \/ \E a \in Addrs \cup {NoAddr}, ot \in OperatorTypes, msg \in OrderMessages :
       info[1] = NoInfo /\ Submit(1, a, ot, msg)
  \/ \E f \in FaultsAt({"deny"}) : DenyCheck(1, f)
  \/ \E f \in TransientAt({"begin"}) : Begin(1, f)
  \/ Transact(1, NoFault)
  \/ Wake(1)
  \/ Return(1)
  \/ \E a, e \in Addrs, ot \in OperatorTypes, msg \in OrderMessages,
        f \in FaultsAt({"deny", "list"}) : GetOperatorInfo(1, a, e, ot, msg, f)
  \/ ReturnInfo(1)

SpecFrame == InitFrame /\ [][NextFrame]_vars

\* C33: credential_events changes only in the step that issues a new
\* credential, by exactly one row, that of the credential returned;
\* GetOperatorInfo, a reissue, a rejection for quota and every request
\* refused in validation, authentication or authorization leave
\* credential_events as it was, and authorization_rules never changes.
C33_OnlyNewIssueWrites ==
  [][/\ rules' = rules
     /\ (events' # events)
          => \E w \in Workers :
               /\ Transacted(w)
               /\ result'[w] = [err |-> "none",
                                cred |-> Create(clock, req[w].signer, req[w].ot)]
               /\ events \subseteq events'
               /\ events' \ events
                    = {Event(req[w].signer, clock, CredentialIssued, req[w].ot)}
     /\ \A w \in Workers :
          /\ (info'[w] # info[w]) => events' = events
          /\ (Transacted(w) /\ result'[w].err = "none" /\ result'[w].cred.timestamp < clock)
               => events' = events
          /\ (pc[w] # "done" /\ pc'[w] = "done"
                /\ result'[w].err \in {"validation", "authentication", "authorization"})
               => events' = events
    ]_vars

\* the store holds the three solo rows of address 1 and nothing else after
\* its fourth solo request was refused for quota
C33_Witness ==
  /\ pc[1] = "done"
  /\ try[1] = 0
  /\ req[1].signer = 1
  /\ req[1].ot = OT_SOLO
  /\ result[1] = [err |-> "authorization", cred |-> NoCred]
  /\ Cardinality(events) = 3
  /\ \A e \in events : e.operator_type = OT_SOLO

----------------------------------------------------------------------------
(* Specification SpecReplay: one operator sends, again and again, a        *)
(* message of this moment and a message stamped an hour ahead, while the   *)
(* clock runs and the node registry is refreshed.                          *)

\* the messages the operator has signed
ReplayMessages == {Msg(StartTime), Msg(StartTime + Hour)}

\* the last second a message is fresh, and the next one
ReplayTicks ==
  UNION {{m.value + credsRequestMaxAge, m.value + credsRequestMaxAge + 1} : m \in ReplayMessages}

InitReplay ==
  /\ clock = StartTime
  /\ wall = clock
  /\ events = {}
  /\ rules = {}
  /\ schema = Migrated
  /\ nodes = {1}
  /\ nodesLastUpdated = clock
  /\ withdrawalAddresses = {}
  /\ wdLastUpdated = clock
  /\ enableSoloValidators = TRUE
  /\ Idle

NextReplay ==
  \/ \E msg \in ReplayMessages : Submit(1, 1, OT_ROCKETPOOL, msg)
  \/ DenyCheck(1, NoFault)
  \/ Begin(1, NoFault)
  \/ Transact(1, NoFault)
  \/ Return(1)
  \/ \E t \in ReplayTicks : Advance(t)
  \/ \E ok \in BOOLEAN : UpdateNodes(ok, FALSE, {1})

SpecReplay == InitReplay /\ [][NextReplay]_vars

\* C34: a signed message is refused for its age exactly when now - ts is
\* more than 15 minutes; a timestamp ahead of now, by any amount, is not
\* refused, at the first request or at a replay; a credential issued on
\* such a message carries the now of the service, a credential handed
\* back an earlier now, never the timestamp of the message.
C34_NoUpperBoundOnTimestamp ==
  [][\A w \in Workers :
       /\ (pc[w] = "idle" /\ pc'[w] # "idle")
            => LET ts == req'[w].msg.value IN
                 IF wall - ts > credsRequestMaxAge
                 THEN pc'[w] = "done" /\ result'[w].err = "authentication"
                 ELSE /\ result'[w].err # "authentication"
                      /\ isNodeRegistered(req'[w].signer) => pc'[w] = "deny"
       /\ (Transacted(w) /\ result'[w].err = "none")
            => /\ result'[w].cred.timestamp <= clock
               /\ (events' # events) => result'[w].cred.timestamp = clock
               /\ \E e \in events' : e.timestamp = result'[w].cred.timestamp
    ]_vars

\* the message stamped an hour ahead is presented a second time, a
\* quarter of an hour after the first credential was issued on it, and is
\* answered with that credential
C34_Witness ==
  /\ pc[1] = "done"
  /\ result[1].err = "none"
  /\ req[1].msg = Msg(StartTime + Hour)
  /\ clock = StartTime + credsRequestMaxAge
  /\ result[1].cred.timestamp = StartTime
  /\ req[1].msg.value > clock

----------------------------------------------------------------------------
(* Specification SpecOther: requests with an operator type that is neither *)
(* ROCKETPOOL nor SOLO, from addresses no registry holds, over the year.   *)

\* an operator type without an entry in quotas
OT_OTHER == 2

InitOther ==
  /\ clock = StartTime
  /\ wall = clock
  /\ events = {}
  /\ rules \in {{}, {Rule(2, CredentialService, Deny)}}
  /\ schema = Migrated
  /\ nodes = {}
  /\ nodesLastUpdated = 0
  /\ withdrawalAddresses = {}
  /\ wdLastUpdated = 0
  /\ enableSoloValidators \in BOOLEAN
  /\ Idle

NextOther ==
  \/ \E a \in Addrs \cup {NoAddr} : Submit(1, a, OT_OTHER, Msg(clock))
  \/ DenyCheck(1, NoFault)
  \/ Begin(1, NoFault)
  \/ Transact(1, NoFault)
  \/ Return(1)
  \/ \E t \in AdvanceTargets : Advance(t)

SpecOther == InitOther /\ [][NextOther]_vars

\* the events of the pair (a, OT_OTHER) issued in the 365 days up to now
otherInWindow(a) ==
  {e.timestamp : e \in {x \in events : /\ x.node_id = a
                                       /\ x.operator_type = OT_OTHER
                                       /\ x.type = CredentialIssued
                                       /\ x.timestamp > clock - 365 * Day}}

\* C35: a request with another operator type passes without any registry
\* being consulted: with a fresh message and a valid signature it comes to
\* the deny-rule lookup, and without a DENY rule to the transaction, which
\* issues one credential per 365 days, valid 10 days: it is handed back
\* while valid and a further request after its expiry is refused.
C35_OtherOperatorType ==
  [][\A w \in Workers :
       /\ (pc[w] = "idle" /\ pc'[w] # "idle" /\ req'[w].ot = OT_OTHER)
            => IF req'[w].signer # NoAddr THEN pc'[w] = "deny"
               ELSE result'[w].err = "authentication"
       /\ (pc[w] = "deny" /\ pc'[w] # "deny")
            => IF Denied(req[w].signer) THEN result'[w].err = "authorization"
               ELSE pc'[w] = "begin"
       /\ (Transacted(w) /\ req[w].ot = OT_OTHER)
            => LET S == otherInWindow(req[w].signer) IN
                 IF S = {}
                 THEN /\ Issued(w, clock)
                      /\ events' = events \cup {Event(req[w].signer, clock,
                                                      CredentialIssued, OT_OTHER)}
                 ELSE /\ Cardinality(S) = 1
                      /\ events' = events
                      /\ IF Max(S) + 10 * Day > clock THEN Issued(w, Max(S))
                         ELSE result'[w] = [err |-> "authorization", cred |-> NoCred]
    ]_vars

\* address 1, which no registry holds, got its credential; ten days later
\* it has expired and the request for another one is refused
C35_Witness ==
  /\ pc[1] = "done"
  /\ req[1].signer = 1
  /\ req[1].ot = OT_OTHER
  /\ 1 \notin nodes \cup withdrawalAddresses
  /\ result[1] = [err |-> "authorization", cred |-> NoCred]
  /\ events = {Event(1, clock - 10 * Day, CredentialIssued, OT_OTHER)}

----------------------------------------------------------------------------
\* C36: the deny-rule lookup ends a request in one of two ways only: the
\* handler goes on to the transaction, or the request is rejected with
\* AUTHORIZATION, for good and with nothing written; this is also what
\* happens when no DENY rule exists and the lookup failed, whatever the
\* storage error, so that such a request is never put to sleep for a retry.
C36_DenyCheckFailsClosed ==
  [][\A w \in Workers :
       (pc[w] = "deny" /\ pc'[w] # "deny")
         => /\ pc'[w] \in {"begin", "done"}
            /\ Denied(req[w].signer) => pc'[w] = "done"
            /\ (pc'[w] = "done")
                 => /\ result'[w] = [err |-> "authorization", cred |-> NoCred]
                    /\ events' = events
                    /\ try'[w] = try[w]
    ]_vars

\* the registered address 1, for which no DENY rule exists, was rejected
\* with AUTHORIZATION at its first attempt on a store without any row of it
C36_Witness ==
  /\ pc[1] = "done"
  /\ try[1] = 0
  /\ req[1].signer = 1
  /\ req[1].ot = OT_ROCKETPOOL
  /\ req[1].msg = Msg(clock)
  /\ 1 \in nodes
  /\ ~Denied(1)
  /\ result[1] = [err |-> "authorization", cred |-> NoCred]
  /\ ~\E e \in events : e.operator_type = OT_ROCKETPOOL

----------------------------------------------------------------------------
(* Specification SpecAppend: requests with retries, beside both           *)
(* refreshers, on a store that holds rows written earlier, one of them     *)
(* REVOKED and bearing the current second.                                 *)

AppendHistories ==
  { {},
    {Event(1, StartTime, CredentialRevoked, OT_ROCKETPOOL),
     Event(2, StartTime - Day, CredentialIssued, OT_ROCKETPOOL)} }

InitAppend ==
  /\ clock = StartTime
  /\ wall = clock
  /\ events \in AppendHistories
  /\ rules = {}
  /\ schema = Migrated
  /\ nodes = Addrs
  /\ nodesLastUpdated = clock
  /\ withdrawalAddresses = Addrs
  /\ wdLastUpdated = clock
  /\ enableSoloValidators = TRUE
  /\ Idle

NextAppend ==
  \/ \E a \in Addrs, ot \in OperatorTypes : Submit(1, a, ot, Msg(clock))
  \/ DenyCheck(1, NoFault)
  \/ \E f \in TransientAt({"begin"}) : Begin(1, f)
  \/ \E f \in TransientAt({"query", "insert", "commit"}) : Transact(1, f)
  \/ Wake(1)
  \/ Return(1)
  \/ \E okProxy, okScan \in BOOLEAN : UpdateNodes(okProxy, okScan, {1})
  \/ \E ok \in BOOLEAN, ids \in SourceLists : UpdateWithdrawalAddresses(ok, ids)

SpecAppend == InitAppend /\ [][NextAppend]_vars

\* C37: no step of a request, of a retry or of a refresher takes a row out
\* of credential_events or changes one: the rows before a step are rows
\* after it, and every row a step adds has type ISSUED.
C37_EventsAppendOnly ==
  [][/\ events \subseteq events'
     /\ \A e \in events' \ events : e.type = CredentialIssued
    ]_vars

\* address 1 got its solo credential at the second attempt; the REVOKED
\* row and the row of address 2 written earlier are still there
C37_Witness ==
  /\ pc[1] = "done"
  /\ try[1] = 1
  /\ result[1].err = "none"
  /\ events = {Event(1, StartTime, CredentialRevoked, OT_ROCKETPOOL),
               Event(2, StartTime - Day, CredentialIssued, OT_ROCKETPOOL),
               Event(1, StartTime, CredentialIssued, OT_SOLO)}

----------------------------------------------------------------------------
(* Specification SpecBoth: one address, listed in both registries, asks    *)
(* for credentials of both operator types on stores that hold rows of      *)
(* both, up to both quotas.                                                *)

\* the rows both quotas allow one address in a window
BothQuotas == StatedQuota(OT_ROCKETPOOL) + StatedQuota(OT_SOLO)

BothHistories ==
  { \* a fresh store
    {},
    \* three credentials of each type, all of them expired
    {Event(1, StartTime - d * Day, CredentialIssued, ot) :
       d \in {100, 80, 60}, ot \in OperatorTypes},
    \* the solo quota used up, the last solo credential a day from its expiry
    {Event(1, StartTime - d * Day, CredentialIssued, OT_SOLO) : d \in {100, 50, 9}} }

InitBoth ==
  /\ clock = StartTime
  /\ wall = clock
  /\ events \in BothHistories
  /\ rules = {}
  /\ schema = Migrated
  /\ nodes = {1}
  /\ nodesLastUpdated = clock
  /\ withdrawalAddresses = {1}
  /\ wdLastUpdated = clock
  /\ enableSoloValidators = TRUE
  /\ Idle

NextBoth ==
  \/ \E ot \in OperatorTypes :
       ReceiveUpTo(BothQuotas + 1, 1, Sign(1, Msg(clock)), ot, Msg(clock))
  \/ DenyCheck(1, NoFault)
  \/ Begin(1, NoFault)
  \/ Transact(1, NoFault)
  \/ Return(1)
  \/ \E t \in {StartTime + 1, StartTime + Day} : AdvanceRefreshed(t)

SpecBoth == InitBoth /\ [][NextBoth]_vars

\* C38: the outcome of the transaction of a request for (address, ot) is
\* the one the ISSUED rows of that address and that operator type in the
\* window call for, whatever rows of the other type the store holds, and
\* it adds no row of the other type; with each type held to its own quota
\* an address can have 4 + 3 rows in a window and no more.
C38_TypesIndependent ==
  [][/\ \A w \in Workers :
          Transacted(w)
            => LET a == req[w].signer
                   ot == req[w].ot
                   S == inWindow(a, ot)
                   last == IF S = {} THEN 0 ELSE Max(S)
                   left == last + AuthValidityWindow(ot) - clock
               IN /\ \A e \in events' \ events : e.operator_type = ot
                  /\ \A e \in events : e.operator_type # ot => e \in events'
                  /\ IF left > 0 /\ (left > credsMinValidityWindow
                                       \/ Cardinality(S) = StatedQuota(ot))
                     THEN Issued(w, last) /\ events' = events
                     ELSE IF Cardinality(S) >= StatedQuota(ot)
                     THEN /\ result'[w] = [err |-> "authorization", cred |-> NoCred]
                          /\ events' = events
                     ELSE /\ Issued(w, clock)
                          /\ events' = events \cup {Event(a, clock, CredentialIssued, ot)}
     /\ \A a \in Addrs :
          /\ \A ot \in OperatorTypes : Cardinality(inWindow(a, ot)') <= StatedQuota(ot)
          /\ Cardinality(inWindow(a, OT_ROCKETPOOL)') + Cardinality(inWindow(a, OT_SOLO)')
               <= BothQuotas
    ]_vars

\* address 1 holds four Rocket Pool and three solo credentials of the year
C38_Witness ==
  /\ Cardinality(inWindow(1, OT_ROCKETPOOL)) = 4
  /\ Cardinality(inWindow(1, OT_SOLO)) = 3
  /\ pc[1] = "done"
  /\ req[1].ot = OT_ROCKETPOOL
  /\ result[1].err = "none"
  /\ result[1].cred.timestamp = clock

----------------------------------------------------------------------------
\* C39: an /info request with a well-formed, fresh message whose signer is
\* not the address named in the request is answered with AUTHENTICATION
\* and no list, whatever the registries and the rules hold for the signer;
\* a list is returned only when signer and named address are the same, and
\* it holds timestamps of that address only.
C39_InfoOnlyForSigner ==
  [][\A w \in Workers :
       (info'[w] # info[w] /\ info'[w] # NoInfo)
         => LET r == info'[w].req IN
              /\ (PatternOk(r.msg) /\ FreshOk(r.msg) /\ r.signer # r.expected)
                   => /\ info'[w].err = "authentication"
                      /\ info'[w].status = 401
                      /\ info'[w].events = <<>>
              /\ (info'[w].err = "none")
                   => /\ r.signer = r.expected
                      /\ \A i \in 1..Len(info'[w].events) :
                           info'[w].events[i] \in issued(r.signer, r.ot)
              /\ events' = events
    ]_vars

\* address 2, which the node registry does not hold, named address 1 in its
\* request: the answer is AUTHENTICATION, not AUTHORIZATION
C39_Witness ==
  /\ info[1].req.signer = 2
  /\ info[1].req.expected = 1
  /\ info[1].req.ot = OT_ROCKETPOOL
  /\ info[1].req.msg = Msg(clock)
  /\ 2 \notin nodes
  /\ info[1].err = "authentication"
  /\ info[1].status = 401

====
